---- MODULE Spec2Model ----
(***************************************************************************)
(* Model of object-store-wasm: URL resolution (parse.rs, aws/builder.rs)   *)
(* the get request path of the HTTP and S3 stores (http/mod.rs,            *)
(* aws/mod.rs), header_meta, the other operations of the two stores, the   *)
(* multipart upload (aws/multipart.rs) and the bridges that run a request  *)
(* on a spawned task and hand its result over a oneshot channel.           *)
(*                                                                         *)
(* Strings are sequences of one-character strings, so that ends_with,      *)
(* starts_with, splitn, format! and parse are computed on characters.      *)
(* A URL path (a string) is kept as the sequence of its '/'-separated      *)
(* pieces: "/b/k" is << "", "b", "k" >>, "/" is << "", "" >> and the empty *)
(* string is << "" >>; this is a bijection between strings and non-empty   *)
(* sequences of '/'-free pieces.                                           *)
(***************************************************************************)
EXTENDS Integers, Sequences, FiniteSets, TLC

VARIABLES
    openPc,      \* position of the parse_url_opts call: "call" | "done"
    url,         \* the Url argument
    options,     \* the options argument: sequence of <<key, value>>
    opened,      \* the Result of parse_url_opts
    getPc,       \* position of a get_opts call: "idle" | "call" | "sent" | "done"
    variant,     \* the store the call is made on: "http" | "s3"
    getOptions,  \* the GetOptions argument
    object,      \* what the server holds at the requested location
    request,     \* the request built from the options
    attempts,    \* how many times the request has been sent
    response,    \* the response that send() delivered
    getResult,   \* the Result of get_opts
    metaPc,      \* position of a header_meta call: "idle" | "call" | "done"
    headerMap,   \* the HeaderMap argument
    headerConfig,\* the HeaderConfig argument
    metaResult,  \* the Result of header_meta
    storeKind,   \* the store the operations are called on: "http" | "s3"
    keys,        \* the locations at which the server holds an object
    lastOp,      \* the last operation called on the store and its Result
    uploadParts, \* multipart upload: the parts the server holds, by part number
    partIds,     \* multipart upload: the PartId put_part returned, by part_idx
    completion,  \* multipart upload: the call of complete and its Result
    bridgeKind,  \* the bridge: "adapter" | "http_get" | "http_delete"
    credential,  \* adapter: the access key id the store was built with
    bridged,     \* the method of the request that is bridged
    adapter,     \* adapter: the Adapter of the store
    callerPc,    \* the awaiting side: "call" | "awaiting" | "received" | "dropped"
    taskPc,      \* the spawned task
    fetches,     \* how many fetches the task has dispatched to the host
    taskResult,  \* the value the task holds for the caller
    channel,     \* the slot of the oneshot channel
    callerResult,\* what the awaiting side received
    callsKind,   \* concurrent calls: the bridge they go through
    calls,       \* concurrent calls: the state of each call and of its task
    streamPc,    \* body stream: "idle" | "call" | "returned"
    bodyItems,   \* body stream: the items the response's bytes_stream yields
    nextChunk,   \* body stream: the index of the next item of the body
    buffered,    \* body stream: the item forward holds until the sink is ready
    queue,       \* body stream: the messages in the mpsc channel
    producerPc,  \* body stream: the spawned task
    consumerPc,  \* body stream: the holder of the returned stream
    received,    \* body stream: the items the consumer has taken
    buildPc,     \* build: "idle" | "call" | "done"
    builder,     \* build: the AmazonS3Builder build is called on
    buildResult  \* build: the Result of build

openVars == <<openPc, url, options, opened>>
getVars == <<getPc, variant, getOptions, object, request, attempts, response,
             getResult>>
metaVars == <<metaPc, headerMap, headerConfig, metaResult>>
storeVars == <<storeKind, keys, lastOp>>
uploadVars == <<uploadParts, partIds, completion>>
bridgeVars == <<bridgeKind, credential, bridged, adapter, callerPc, taskPc, fetches,
                taskResult, channel, callerResult>>
callsVars == <<callsKind, calls>>
streamVars == <<streamPc, bodyItems, nextChunk, buffered, queue, producerPc, consumerPc,
                received>>
buildVars == <<buildPc, builder, buildResult>>
vars == <<openVars, getVars, metaVars, storeVars, uploadVars, bridgeVars, callsVars,
          streamVars, buildVars>>

\* the variables an action of one part of the model leaves alone
outsideOpen == <<getVars, metaVars, storeVars, uploadVars, bridgeVars,
    callsVars, streamVars, buildVars>>
outsideGet == <<openVars, metaVars, storeVars, uploadVars, bridgeVars,
    callsVars, streamVars, buildVars>>
outsideMeta == <<openVars, getVars, storeVars, uploadVars, bridgeVars,
    callsVars, streamVars, buildVars>>
outsideStore == <<openVars, getVars, metaVars, uploadVars, bridgeVars,
    callsVars, streamVars, buildVars>>
outsideUpload == <<openVars, getVars, metaVars, storeVars, bridgeVars,
    callsVars, streamVars, buildVars>>
outsideBridge == <<openVars, getVars, metaVars, storeVars, uploadVars,
    callsVars, streamVars, buildVars>>

outsideCalls == <<openVars, getVars, metaVars, storeVars, uploadVars, bridgeVars,
    streamVars, buildVars>>
outsideStream == <<openVars, getVars, metaVars, storeVars, uploadVars, bridgeVars,
    callsVars, buildVars>>
outsideBuild == <<openVars, getVars, metaVars, storeVars, uploadVars, bridgeVars,
    callsVars, streamVars>>

\* no header_meta call is under way
MetaIdle ==
    /\ metaPc = "idle"
    /\ headerMap = <<>>
    /\ headerConfig = <<>>
    /\ metaResult = <<>>

\* no operation has been called on a store
StoreIdle ==
    /\ storeKind = "http"
    /\ keys = {}
    /\ lastOp = <<>>

\* no multipart upload is under way
UploadIdle ==
    /\ uploadParts = <<>>
    /\ partIds = <<>>
    /\ completion = <<>>

\* no request is being bridged
BridgeIdle ==
    /\ bridgeKind = "http_get"
    /\ credential = <<>>
    /\ bridged = ""
    /\ adapter = <<>>
    /\ callerPc = "idle"
    /\ taskPc = "idle"
    /\ fetches = 0
    /\ taskResult = <<>>
    /\ channel = <<>>
    /\ callerResult = <<>>

\* no concurrent calls are under way
CallsIdle ==
    /\ callsKind = "http_get"
    /\ calls = <<>>

\* no body is being streamed
StreamIdle ==
    /\ streamPc = "idle"
    /\ bodyItems = <<>>
    /\ nextChunk = 1
    /\ buffered = <<>>
    /\ queue = <<>>
    /\ producerPc = "idle"
    /\ consumerPc = "idle"
    /\ received = <<>>

\* build has not been called on a builder
BuildIdle ==
    /\ buildPc = "idle"
    /\ builder = <<>>
    /\ buildResult = <<>>

----------------------------------------------------------------------------
(* Options and strings *)

None == <<>>
Some(x) == <<x>>
IsSome(o) == o # <<>>
Unwrap(o) == o[1]

EmptyStr == <<>>

StartsWith(s, pre) ==
    /\ Len(s) >= Len(pre)
    /\ SubSeq(s, 1, Len(pre)) = pre

EndsWith(s, suf) ==
    /\ Len(s) >= Len(suf)
    /\ SubSeq(s, Len(s) - Len(suf) + 1, Len(s)) = suf

\* position of the first occurrence of character c in s, 0 when absent
IndexOf(s, c) ==
    IF \E i \in 1..Len(s) : s[i] = c
    THEN CHOOSE i \in 1..Len(s) : s[i] = c /\ \A j \in 1..(i - 1) : s[j] # c
    ELSE 0

\* str::splitn(n, c): at most n pieces, the last one holding the remainder
RECURSIVE Splitn(_, _, _)
Splitn(s, n, c) ==
    IF n = 1 \/ IndexOf(s, c) = 0
    THEN <<s>>
    ELSE <<SubSeq(s, 1, IndexOf(s, c) - 1)>>
         \o Splitn(SubSeq(s, IndexOf(s, c) + 1, Len(s)), n - 1, c)

\* str::split(c): every piece
RECURSIVE Split(_, _)
Split(s, c) ==
    IF IndexOf(s, c) = 0
    THEN <<s>>
    ELSE <<SubSeq(s, 1, IndexOf(s, c) - 1)>>
         \o Split(SubSeq(s, IndexOf(s, c) + 1, Len(s)), c)

\* the pieces joined with '.' (the inverse of Split(_, "."))
RECURSIVE JoinDot(_)
JoinDot(labels) ==
    IF Len(labels) = 1 THEN labels[1]
    ELSE labels[1] \o <<".">> \o JoinDot(Tail(labels))

----------------------------------------------------------------------------
(* String literals of the source *)

S_s3 == <<"s", "3">>
S_amazonaws == <<"a", "m", "a", "z", "o", "n", "a", "w", "s">>
S_com == <<"c", "o", "m">>
S_r2 == <<"r", "2">>
S_cloudflarestorage ==
    <<"c", "l", "o", "u", "d", "f", "l", "a", "r", "e",
      "s", "t", "o", "r", "a", "g", "e">>
S_amazonaws_com == JoinDot(<<S_amazonaws, S_com>>)
S_r2_cloudflarestorage_com == JoinDot(<<S_r2, S_cloudflarestorage, S_com>>)
S_auto == <<"a", "u", "t", "o">>
S_https_prefix == <<"h", "t", "t", "p", "s", ":", "/", "/">>
S_access_key == <<"a", "c", "c", "e", "s", "s", "_", "k", "e", "y">>

----------------------------------------------------------------------------
(* object_store::path::Path, as parse.rs uses it *)

\* str::strip_prefix('/') on a string kept as its '/'-separated pieces
StripPrefixSlash(p) ==
    IF Len(p) >= 2 /\ p[1] = EmptyStr THEN Some(Tail(p)) ELSE None

\* str::strip_suffix('/')
StripSuffixSlash(p) ==
    IF Len(p) >= 2 /\ p[Len(p)] = EmptyStr
    THEN Some(SubSeq(p, 1, Len(p) - 1)) ELSE None

\* Path::from_url_path / Path::parse: one leading and one trailing '/' are
\* dropped, the empty string is the root, any other empty piece is an error.
\* The pieces of the model carry no percent-escapes, so decoding keeps them.
PathFromUrlPath(p) ==
    LET stripped == IF IsSome(StripPrefixSlash(p))
                    THEN Unwrap(StripPrefixSlash(p)) ELSE p
        trimmed == IF IsSome(StripSuffixSlash(stripped))
                   THEN Unwrap(StripSuffixSlash(stripped)) ELSE stripped
    IN IF stripped = <<EmptyStr>>
       THEN [ok |-> TRUE, path |-> <<>>]
       ELSE IF \E i \in 1..Len(trimmed) : trimmed[i] = EmptyStr
            THEN [ok |-> FALSE, path |-> <<>>]
            ELSE [ok |-> TRUE, path |-> trimmed]

\* Path as a string again (AsRef<str>): the parts joined with '/'
PathAsStr(parts) == IF parts = <<>> THEN <<EmptyStr>> ELSE parts

----------------------------------------------------------------------------
(* parse.rs: ObjectStoreScheme::parse *)

GenericErr(store, source) ==
    [kind |-> "Generic", store |-> store, source |-> source]

\* strip_bucket that keeps the bucket segment
strip_bucket_Keep(u) == StripPrefixSlash(u.path)

\* the closure strip_bucket: url.path().strip_prefix('/')?.split_once('/')?.1
strip_bucket(u) ==
    IF IsSome(StripPrefixSlash(u.path))
    THEN LET rest == Unwrap(StripPrefixSlash(u.path))
         IN IF Len(rest) >= 2 THEN Some(Tail(rest)) ELSE None
    ELSE None

unwrap_or_default_str(o) == IF IsSome(o) THEN Unwrap(o) ELSE <<EmptyStr>>

\* HttpsArm without the r2.cloudflarestorage.com branch
HttpsArm_NoR2(u, host) ==
    IF EndsWith(host, S_amazonaws_com)
    THEN IF StartsWith(host, S_s3)
         THEN [scheme |-> "AmazonS3", path |-> unwrap_or_default_str(strip_bucket(u))]
         ELSE [scheme |-> "AmazonS3", path |-> u.path]
    ELSE [scheme |-> "Http", path |-> u.path]

\* the arm ("https", Some(host)) of the match
HttpsArm(u, host) ==
    IF EndsWith(host, S_amazonaws_com)
    THEN IF StartsWith(host, S_s3)
         THEN [scheme |-> "AmazonS3", path |-> unwrap_or_default_str(strip_bucket(u))]
         ELSE [scheme |-> "AmazonS3", path |-> u.path]
    ELSE IF EndsWith(host, S_r2_cloudflarestorage_com)
         THEN [scheme |-> "AmazonS3", path |-> unwrap_or_default_str(strip_bucket(u))]
         ELSE [scheme |-> "Http", path |-> u.path]

\* the match on (url.scheme(), url.host_str()); "Unrecognised" is the `_` arm
SchemeMatch(u) ==
    IF ~IsSome(u.host) THEN [scheme |-> "Unrecognised", path |-> u.path]
    ELSE IF u.scheme \in {"s3", "s3a"} THEN [scheme |-> "AmazonS3", path |-> u.path]
    ELSE IF u.scheme = "http" THEN [scheme |-> "Http", path |-> u.path]
    ELSE IF u.scheme = "https" THEN HttpsArm(u, Unwrap(u.host))
    ELSE [scheme |-> "Unrecognised", path |-> u.path]

ObjectStoreScheme_parse(u) ==
    LET m == SchemeMatch(u)
        p == PathFromUrlPath(m.path)
    IN IF m.scheme = "Unrecognised"
       THEN [ok |-> FALSE, err |-> GenericErr("URL", "Unrecognised")]
       ELSE IF ~p.ok
            THEN [ok |-> FALSE, err |-> GenericErr("URL", "Path")]
            ELSE [ok |-> TRUE, scheme |-> m.scheme, path |-> p.path]

----------------------------------------------------------------------------
(* aws/builder.rs: AmazonS3ConfigKey and AmazonS3Builder *)

AmazonS3ConfigKey_from_str(s) ==
    IF s \in {"aws_access_key_id", "access_key_id"} THEN Some("AccessKeyId")
    ELSE IF s \in {"aws_secret_access_key", "secret_access_key"}
         THEN Some("SecretAccessKey")
    ELSE IF s \in {"aws_region", "region"} THEN Some("Region")
    ELSE IF s \in {"aws_bucket", "aws_bucket_name", "bucket_name", "bucket"}
         THEN Some("Bucket")
    ELSE IF s \in {"aws_endpoint_url", "aws_endpoint", "endpoint_url", "endpoint"}
         THEN Some("Endpoint")
    ELSE IF s \in {"aws_session_token", "aws_token", "session_token", "token"}
         THEN Some("SessionToken")
    ELSE None   \* Err(UnknownConfigurationKey { key: s })

\* AmazonS3Builder::new().with_url(url)
AmazonS3Builder_new_with_url(u) ==
    [bucket |-> None, region |-> None, access_key_id |-> None,
     secret_access_key |-> None, session_token |-> None, endpoint |-> None,
     url |-> Some(u)]

with_config(b, key, value) ==
    CASE key = "AccessKeyId" -> [b EXCEPT !.access_key_id = Some(value)]
      [] key = "SecretAccessKey" -> [b EXCEPT !.secret_access_key = Some(value)]
      [] key = "Region" -> [b EXCEPT !.region = Some(value)]
      [] key = "Bucket" -> [b EXCEPT !.bucket = Some(value)]
      [] key = "Endpoint" -> [b EXCEPT !.endpoint = Some(value)]
      [] key = "SessionToken" -> [b EXCEPT !.session_token = Some(value)]

\* parsed.path_segments().into_iter().flatten().next()
FirstPathSegment(u) ==
    IF IsSome(StripPrefixSlash(u.path))
    THEN Some(Unwrap(StripPrefixSlash(u.path))[1])
    ELSE None

\* BuilderHttpsArm whose r2 branch keeps a region that is already set
BuilderHttpsArm_KeepRegion(b, u, host) ==
    LET t == Splitn(host, 4, ".")
        bucket == FirstPathSegment(u)
        withBucket(bb) == IF IsSome(bucket)
                          THEN [bb EXCEPT !.bucket = Some(Unwrap(bucket))]
                          ELSE bb
    IN IF Len(t) = 4 /\ t[1] = S_s3 /\ t[3] = S_amazonaws /\ t[4] = S_com
       THEN [ok |-> TRUE,
             b |-> withBucket([b EXCEPT !.region = Some(t[2])])]
       ELSE IF Len(t) = 4 /\ t[2] = S_r2 /\ t[3] = S_cloudflarestorage /\ t[4] = S_com
            THEN [ok |-> TRUE,
                  b |-> withBucket([b EXCEPT
                          !.region = IF IsSome(b.region) THEN b.region
                                     ELSE Some(S_auto),
                          !.endpoint = Some(S_https_prefix \o t[1] \o <<".">>
                                            \o S_r2_cloudflarestorage_com)])]
            ELSE [ok |-> FALSE, err |-> GenericErr("S3", "UrlNotRecognised")]

\* the arm "https" of AmazonS3Builder::parse_url
BuilderHttpsArm(b, u, host) ==
    LET t == Splitn(host, 4, ".")
        bucket == FirstPathSegment(u)
        withBucket(bb) == IF IsSome(bucket)
                          THEN [bb EXCEPT !.bucket = Some(Unwrap(bucket))]
                          ELSE bb
    IN IF Len(t) = 4 /\ t[1] = S_s3 /\ t[3] = S_amazonaws /\ t[4] = S_com
       THEN [ok |-> TRUE,
             b |-> withBucket([b EXCEPT !.region = Some(t[2])])]
       ELSE IF Len(t) = 4 /\ t[2] = S_r2 /\ t[3] = S_cloudflarestorage /\ t[4] = S_com
            THEN [ok |-> TRUE,
                  b |-> withBucket([b EXCEPT
                          !.region = Some(S_auto),
                          !.endpoint = Some(S_https_prefix \o t[1] \o <<".">>
                                            \o S_r2_cloudflarestorage_com)])]
            ELSE [ok |-> FALSE, err |-> GenericErr("S3", "UrlNotRecognised")]

AmazonS3Builder_parse_url(b, u) ==
    IF ~IsSome(u.host)
    THEN [ok |-> FALSE, err |-> GenericErr("S3", "UrlNotRecognised")]
    ELSE IF u.scheme \in {"s3", "s3a"}
         THEN [ok |-> TRUE, b |-> [b EXCEPT !.bucket = Some(Unwrap(u.host))]]
         ELSE IF u.scheme = "https"
              THEN BuilderHttpsArm(b, u, Unwrap(u.host))
              ELSE [ok |-> FALSE, err |-> GenericErr("S3", "UnknownUrlScheme")]

\* UseMock that holds for every access key id
UseMock_AnyKey(access_key_id) == access_key_id # EmptyStr

\* the argument build gives to Adapter::new
UseMock(access_key_id) == access_key_id = S_access_key

\* AmazonS3Builder_build that falls back to an empty bucket when none is set
AmazonS3Builder_build_DefaultBucket(b0) ==
    LET parsed == IF IsSome(b0.url)
                  THEN AmazonS3Builder_parse_url([b0 EXCEPT !.url = None],
                                                 Unwrap(b0.url))
                  ELSE [ok |-> TRUE, b |-> b0]
    IN IF ~parsed.ok THEN [ok |-> FALSE, err |-> parsed.err]
       ELSE LET b == parsed.b
            IN IF ~IsSome(b.access_key_id) \/ ~IsSome(b.secret_access_key)
               THEN [ok |-> FALSE, err |-> GenericErr("S3", "Unknown")]
               ELSE [ok |-> TRUE,
                     store |-> [kind |-> "S3",
                                bucket |-> IF IsSome(b.bucket) THEN Unwrap(b.bucket)
                                           ELSE EmptyStr,
                                region |-> b.region,
                                endpoint |-> b.endpoint,
                                access_key_id |-> Unwrap(b.access_key_id),
                                secret_access_key |-> Unwrap(b.secret_access_key),
                                session_token |-> b.session_token,
                                use_mock |-> UseMock(Unwrap(b.access_key_id))]]

\* AmazonS3Builder::build: the URL is parsed here, on the builder as the
\* options left it
AmazonS3Builder_build(b0) ==
    LET parsed == IF IsSome(b0.url)
                  THEN AmazonS3Builder_parse_url([b0 EXCEPT !.url = None],
                                                 Unwrap(b0.url))
                  ELSE [ok |-> TRUE, b |-> b0]
    IN IF ~parsed.ok THEN [ok |-> FALSE, err |-> parsed.err]
       ELSE LET b == parsed.b
            IN IF ~IsSome(b.access_key_id) \/ ~IsSome(b.secret_access_key)
                  \/ ~IsSome(b.bucket)
               THEN [ok |-> FALSE, err |-> GenericErr("S3", "Unknown")]
               ELSE [ok |-> TRUE,
                     store |-> [kind |-> "S3",
                                bucket |-> Unwrap(b.bucket),
                                region |-> b.region,
                                endpoint |-> b.endpoint,
                                access_key_id |-> Unwrap(b.access_key_id),
                                secret_access_key |-> Unwrap(b.secret_access_key),
                                session_token |-> b.session_token,
                                use_mock |-> UseMock(Unwrap(b.access_key_id))]]

----------------------------------------------------------------------------
(* parse.rs: builder_opts! and parse_url_opts *)

\* one step of the fold: a key that does not parse leaves the builder as it is
FoldStep(b, kv) ==
    IF IsSome(AmazonS3ConfigKey_from_str(kv[1]))
    THEN with_config(b, Unwrap(AmazonS3ConfigKey_from_str(kv[1])), kv[2])
    ELSE b

RECURSIVE FoldOptions(_, _)
FoldOptions(b, opts) ==
    IF opts = <<>> THEN b
    ELSE FoldOptions(FoldStep(b, Head(opts)), Tail(opts))

\* builder_opts that parses the URL first and applies the options after it
builder_opts_UrlFirst(u, opts) ==
    LET fresh == [AmazonS3Builder_new_with_url(u) EXCEPT !.url = None]
        parsed == AmazonS3Builder_parse_url(fresh, u)
    IN IF ~parsed.ok THEN [ok |-> FALSE, err |-> parsed.err]
       ELSE AmazonS3Builder_build(FoldOptions(parsed.b, opts))

builder_opts(u, opts) ==
    AmazonS3Builder_build(FoldOptions(AmazonS3Builder_new_with_url(u), opts))

\* &url[..Position::BeforePath] handed to HttpStore::new; the options are
\* not looked at
HttpStore_new(u) ==
    [kind |-> "HTTP", scheme |-> u.scheme, host |-> Unwrap(u.host)]

parse_url_opts(u, opts) ==
    LET sp == ObjectStoreScheme_parse(u)
    IN IF ~sp.ok THEN [ok |-> FALSE, err |-> sp.err]
       ELSE IF sp.scheme = "AmazonS3"
            THEN LET built == builder_opts(u, opts)
                 IN IF built.ok
                    THEN [ok |-> TRUE, store |-> built.store,
                          path |-> PathFromUrlPath(PathAsStr(sp.path)).path]
                    ELSE [ok |-> FALSE, err |-> built.err]
            ELSE [ok |-> TRUE, store |-> HttpStore_new(u),
                  path |-> PathFromUrlPath(PathAsStr(sp.path)).path]

----------------------------------------------------------------------------
(* Inputs of parse_url_opts *)

MaxSegs == 2     \* pieces of a URL path after the leading '/'
MaxOpts == 3     \* entries of the options argument

L_b == <<"b">>
L_k == <<"k">>
L_us == <<"u", "s">>
L_ac == <<"a", "c">>
L_ex == <<"e", "x">>
L_xamazonaws == <<"x">> \o S_amazonaws

H_bucket == L_b                                               \* s3://b
H_path_style == JoinDot(<<S_s3, L_us, S_amazonaws, S_com>>)   \* s3.us.amazonaws.com
H_virtual == JoinDot(<<L_b, S_s3, L_us, S_amazonaws, S_com>>) \* b.s3.us.amazonaws.com
H_s3_global == JoinDot(<<S_s3, S_amazonaws, S_com>>)          \* s3.amazonaws.com
H_r2 == JoinDot(<<L_ac, S_r2, S_cloudflarestorage, S_com>>)   \* ac.r2.cloudflarestorage.com
H_other == JoinDot(<<L_ex, S_com>>)                           \* ex.com
H_xamazonaws == JoinDot(<<L_xamazonaws, S_com>>)              \* xamazonaws.com

Hosts == {H_bucket, H_path_style, H_virtual, H_s3_global, H_r2, H_other,
          H_xamazonaws}

NonSpecialSchemes == {"s3", "s3a", "gs"}

\* the scheme and host pairs tried: every host under https, a bucket under
\* the schemes without a special meaning to the url crate, two hosts under http
SchemeHosts ==
    (NonSpecialSchemes \X {H_bucket})
    \cup ({"https"} \X Hosts)
    \cup ({"http"} \X {H_other, H_path_style})

Pieces == {EmptyStr, L_b, L_k}

\* every path "/p1/.../pn" with 1 <= n <= MaxSegs
SlashPaths ==
    UNION {{<<EmptyStr>> \o f : f \in [1..n -> Pieces]} : n \in 1..MaxSegs}

\* a Url as the url crate hands it over: http and https URLs have a host and
\* a path that starts with '/'; the other schemes may lack either
Urls ==
    {[scheme |-> sh[1], host |-> Some(sh[2]), path |-> p] :
        sh \in SchemeHosts, p \in SlashPaths}
    \cup {[scheme |-> sc, host |-> Some(H_bucket), path |-> <<EmptyStr>>] :
            sc \in NonSpecialSchemes}
    \cup {[scheme |-> sc, host |-> None, path |-> <<EmptyStr, q>>] :
            sc \in NonSpecialSchemes, q \in Pieces}

V_ak == <<"A", "K">>
V_sk == <<"S", "K">>
V_eu == <<"e", "u">>
V_cfg == <<"c", "f", "g">>
V_ep == <<"e", "p">>
V_x == <<"x">>

OptionPairs ==
    {<<"access_key_id", V_ak>>, <<"aws_access_key_id", S_access_key>>,
     <<"aws_secret_access_key", V_sk>>, <<"region", V_eu>>,
     <<"bucket", V_cfg>>, <<"endpoint", V_ep>>, <<"bogus", V_x>>}

\* the options are the entries of a map (js_binding.rs hands over a
\* HashMap<String, String>): each key string at most once, in any order
OptionLists ==
    UNION {{f \in [1..n -> OptionPairs] :
                \A i, j \in 1..n : i # j => f[i][1] # f[j][1]} : n \in 0..MaxOpts}

----------------------------------------------------------------------------
(* The call openStore(url, options) = parse_url_opts *)

NoResult == [ok |-> FALSE, err |-> GenericErr("", "pending")]

\* no get_opts call is under way
GetIdle ==
    /\ getPc = "idle"
    /\ variant = "http"
    /\ getOptions = <<>>
    /\ object = <<>>
    /\ request = <<>>
    /\ attempts = 0
    /\ response = <<>>
    /\ getResult = <<>>

InitOpen ==
    /\ openPc = "call"
    /\ url \in Urls
    /\ options \in OptionLists
    /\ opened = NoResult
    /\ GetIdle /\ MetaIdle /\ StoreIdle /\ UploadIdle /\ BridgeIdle
    /\ CallsIdle /\ StreamIdle /\ BuildIdle

OpenStore ==
    /\ openPc = "call"
    /\ opened' = parse_url_opts(url, options)
    /\ openPc' = "done"
    /\ UNCHANGED <<url, options, outsideOpen>>

NextOpen == OpenStore

SpecOpen == InitOpen /\ [][NextOpen]_vars

----------------------------------------------------------------------------
(* Vocabulary of the properties of openStore *)

NonEmptyPieces(p) == SelectSeq(p, LAMBDA x : x # EmptyStr)

\* a URL path whose only empty pieces are the one before the leading '/' and
\* the one after a single trailing '/'
ValidUrlPath(p) ==
    LET body == Tail(p)
        inner == IF body # <<>> /\ body[Len(body)] = EmptyStr
                 THEN SubSeq(body, 1, Len(body) - 1) ELSE body
    IN \A i \in 1..Len(inner) : inner[i] # EmptyStr

HostOf(u) == Unwrap(u.host)

\* https://s3.{region}.amazonaws.com
PathStyleHost(h) ==
    LET l == Split(h, ".")
    IN Len(l) = 4 /\ l[1] = S_s3 /\ l[3] = S_amazonaws /\ l[4] = S_com

\* https://{account}.r2.cloudflarestorage.com
R2Host(h) ==
    LET l == Split(h, ".")
    IN Len(l) = 4 /\ l[2] = S_r2 /\ l[3] = S_cloudflarestorage /\ l[4] = S_com

IsS3Url(u) ==
    \/ u.scheme \in {"s3", "s3a"}
    \/ /\ u.scheme = "https"
       /\ \/ EndsWith(HostOf(u), S_amazonaws_com)
          \/ EndsWith(HostOf(u), S_r2_cloudflarestorage_com)

IsHttpUrl(u) ==
    \/ u.scheme = "http"
    \/ u.scheme = "https" /\ ~IsS3Url(u)

\* the value the options give for a configuration key: the last entry wins
ConfigValue(opts, key) ==
    LET idx == {i \in 1..Len(opts) : AmazonS3ConfigKey_from_str(opts[i][1]) = Some(key)}
    IN IF idx = {} THEN None
       ELSE Some(opts[CHOOSE i \in idx : \A j \in idx : j <= i][2])

HasCredentials(opts) ==
    /\ IsSome(ConfigValue(opts, "AccessKeyId"))
    /\ IsSome(ConfigValue(opts, "SecretAccessKey"))

OpenDone == openPc = "done"
OpenedS3 == OpenDone /\ opened.ok /\ opened.store.kind = "S3"

----------------------------------------------------------------------------
(* C1: for a URL with a host, openStore resolves to the S3 backend when the
   scheme is s3 or s3a or the scheme is https and the host ends with
   amazonaws.com or r2.cloudflarestorage.com; to the HTTP backend, with the
   URL path as residual path, when the scheme is http or https with another
   host; and fails with the unrecognised-URL error, returning no store, for
   every other scheme. *)
C1_Classification ==
    (OpenDone /\ IsSome(url.host)) =>
        /\ IsS3Url(url) =>
              IF opened.ok THEN opened.store.kind = "S3"
              ELSE opened.err # GenericErr("URL", "Unrecognised")
        /\ IsHttpUrl(url) =>
              IF opened.ok
              THEN /\ opened.store.kind = "HTTP"
                   /\ opened.path = NonEmptyPieces(url.path)
              ELSE /\ opened.err = GenericErr("URL", "Path")
                   /\ ~ValidUrlPath(url.path)
        /\ (~IsS3Url(url) /\ ~IsHttpUrl(url)) =>
              /\ ~opened.ok
              /\ opened.err = GenericErr("URL", "Unrecognised")

C1_Witness ==
    /\ OpenDone
    /\ url = [scheme |-> "https", host |-> Some(H_r2), path |-> <<EmptyStr, L_b, L_k>>]
    /\ opened.ok
    /\ opened.store.kind = "S3"

(* C2: an s3:// or s3a:// URL gives a store whose bucket is the URL host and
   the URL path as residual path; a path-style URL
   https://s3.{region}.amazonaws.com/{bucket}/{key} gives the first path
   segment as bucket, the host's second label as region and the key, without
   the bucket segment, as residual path. *)
C2_BucketRegionPath ==
    (OpenDone /\ opened.ok /\ IsSome(url.host)) =>
        /\ url.scheme \in {"s3", "s3a"} =>
              /\ opened.store.kind = "S3"
              /\ opened.store.bucket = HostOf(url)
              /\ opened.path = NonEmptyPieces(url.path)
        /\ (url.scheme = "https" /\ PathStyleHost(HostOf(url)) /\ Len(url.path) >= 3) =>
              /\ opened.store.kind = "S3"
              /\ opened.store.bucket = url.path[2]
              /\ opened.store.region = Some(Split(HostOf(url), ".")[2])
              /\ opened.path = NonEmptyPieces(SubSeq(url.path, 3, Len(url.path)))

C2_Witness ==
    /\ OpenedS3
    /\ url = [scheme |-> "https", host |-> Some(H_path_style),
              path |-> <<EmptyStr, L_b, L_k>>]
    /\ opened.store.bucket = L_b
    /\ opened.store.region = Some(L_us)
    /\ opened.path = <<L_k>>

(* C3: for an https URL whose host ends with amazonaws.com and does not start
   with s3 (virtual-hosted style), openStore with credentials succeeds with an
   S3 store whose bucket is the host's first label and whose residual path is
   the URL path. *)
C3_VirtualHostedAccepted ==
    (/\ OpenDone
     /\ url.scheme = "https"
     /\ EndsWith(HostOf(url), S_amazonaws_com)
     /\ ~StartsWith(HostOf(url), S_s3)
     /\ HasCredentials(options)
     /\ ValidUrlPath(url.path)) =>
        /\ opened.ok
        /\ opened.store.kind = "S3"
        /\ opened.store.bucket = Split(HostOf(url), ".")[1]
        /\ opened.path = NonEmptyPieces(url.path)

(* C4: a URL https://{account}.r2.cloudflarestorage.com/{bucket}/{key} gives
   an S3 store with region auto, endpoint
   https://{account}.r2.cloudflarestorage.com, the first path segment as
   bucket and the key, without the bucket segment, as residual path. *)
C4_R2 ==
    (/\ OpenDone /\ opened.ok
     /\ url.scheme = "https" /\ R2Host(HostOf(url)) /\ Len(url.path) >= 3) =>
        /\ opened.store.kind = "S3"
        /\ opened.store.region = Some(S_auto)
        /\ opened.store.endpoint = Some(S_https_prefix \o HostOf(url))
        /\ opened.store.bucket = url.path[2]
        /\ opened.path = NonEmptyPieces(SubSeq(url.path, 3, Len(url.path)))

C4_Witness ==
    /\ OpenedS3
    /\ url = [scheme |-> "https", host |-> Some(H_r2), path |-> <<EmptyStr, L_b, L_k>>]
    /\ ConfigValue(options, "Region") = Some(V_eu)
    /\ opened.store.region = Some(S_auto)
    /\ opened.store.bucket = L_b

\* what the URL determines
UrlHasRegion(u) ==
    u.scheme = "https" /\ (PathStyleHost(HostOf(u)) \/ R2Host(HostOf(u)))
UrlRegion(u) ==
    IF PathStyleHost(HostOf(u)) THEN Split(HostOf(u), ".")[2] ELSE S_auto
UrlHasEndpoint(u) == u.scheme = "https" /\ R2Host(HostOf(u))
UrlEndpoint(u) == S_https_prefix \o HostOf(u)
UrlBucket(u) == IF u.scheme = "https" THEN u.path[2] ELSE HostOf(u)

(* C5, as stated: a region, bucket or endpoint given in the configuration is
   the one the constructed store uses, also when the URL determines that
   value. *)
C5_ConfigOverridesUrl ==
    OpenedS3 =>
        /\ (IsSome(ConfigValue(options, "Region")) /\ UrlHasRegion(url)) =>
              opened.store.region = ConfigValue(options, "Region")
        /\ IsSome(ConfigValue(options, "Bucket")) =>
              opened.store.bucket = Unwrap(ConfigValue(options, "Bucket"))
        /\ (IsSome(ConfigValue(options, "Endpoint")) /\ UrlHasEndpoint(url)) =>
              opened.store.endpoint = ConfigValue(options, "Endpoint")

(* C5, amended: the URL is parsed when the store is built, after the
   configuration was applied, so a region, bucket or endpoint that the URL
   determines is the one the store uses whatever the configuration says; the
   configuration value is used exactly where the URL does not determine the
   value. *)
C5_UrlOverridesConfig ==
    OpenedS3 =>
        /\ opened.store.region =
              IF UrlHasRegion(url) THEN Some(UrlRegion(url))
              ELSE ConfigValue(options, "Region")
        /\ opened.store.endpoint =
              IF UrlHasEndpoint(url) THEN Some(UrlEndpoint(url))
              ELSE ConfigValue(options, "Endpoint")
        /\ opened.store.bucket = UrlBucket(url)

C5_Witness ==
    /\ OpenedS3
    /\ url.scheme = "https" /\ HostOf(url) = H_path_style
    /\ ConfigValue(options, "Region") = Some(V_eu)
    /\ opened.store.region = Some(L_us)

(* C6: openStore fails with UnknownConfigurationKey, and returns no store,
   whenever the options hold a key that is not a recognised configuration key
   or alias, whatever backend the URL resolves to. *)
C6_UnknownKeyFails ==
    (/\ OpenDone
     /\ \E i \in 1..Len(options) : AmazonS3ConfigKey_from_str(options[i][1]) = None) =>
        /\ ~opened.ok
        /\ opened.err.kind = "UnknownConfigurationKey"

----------------------------------------------------------------------------
(* Numbers in strings: format!("{}", n) and str::parse::<u64> *)

Digits == <<"0", "1", "2", "3", "4", "5", "6", "7", "8", "9">>

IsDigit(c) == \E d \in 1..10 : Digits[d] = c
DigitVal(c) == (CHOOSE d \in 1..10 : Digits[d] = c) - 1

RECURSIVE FormatU64(_)
FormatU64(n) ==
    IF n < 10 THEN <<Digits[n + 1]>>
    ELSE FormatU64(n \div 10) \o <<Digits[(n % 10) + 1]>>

RECURSIVE DigitsValue(_)
DigitsValue(s) ==
    IF s = <<>> THEN 0
    ELSE 10 * DigitsValue(SubSeq(s, 1, Len(s) - 1)) + DigitVal(s[Len(s)])

\* str::parse::<u64>: None stands for Err(ParseIntError)
ParseU64(s) ==
    IF s # <<>> /\ \A i \in 1..Len(s) : IsDigit(s[i])
    THEN Some(DigitsValue(s)) ELSE None

\* u64::saturating_sub
saturating_sub(a, b) == IF a >= b THEN a - b ELSE 0

S_bytes_eq == <<"b", "y", "t", "e", "s", "=">>
S_bytes_sp == <<"b", "y", "t", "e", "s", " ">>

----------------------------------------------------------------------------
(* Dates in strings.  An instant is a number of seconds after the Unix      *)
(* epoch; the instants used lie within the first minute, so that the date   *)
(* part of every string is that of 1 January 1970.                          *)

S_date_prefix == <<"T", "h", "u", ",", " ", "0", "1", " ", "J", "a", "n", " ",
                   "1", "9", "7", "0", " ", "0", "0", ":", "0", "0", ":">>
S_gmt == <<" ", "G", "M", "T">>
S_yesterday == <<"y", "e", "s", "t", "e", "r", "d", "a", "y">>

\* "%S": two digits
TwoDigits(n) == <<Digits[(n \div 10) + 1], Digits[(n % 10) + 1]>>

\* date.format("%a, %d %b %Y %H:%M:%S GMT").to_string()
FormatHttpDate(t) == S_date_prefix \o TwoDigits(t) \o S_gmt

\* DateTime::parse_from_rfc2822(..).with_timezone(&Utc): None stands for
\* Err(chrono::ParseError)
parse_from_rfc2822(s) ==
    LET n == Len(S_date_prefix)
        secs == SubSeq(s, n + 1, n + 2)
    IN IF /\ Len(s) = n + 2 + Len(S_gmt)
          /\ StartsWith(s, S_date_prefix)
          /\ EndsWith(s, S_gmt)
          /\ IsDigit(secs[1]) /\ IsDigit(secs[2])
          /\ DigitsValue(secs) < 60
       THEN Some(DigitsValue(secs)) ELSE None

\* aws_smithy_types::DateTime::from_millis of the milliseconds between the
\* epoch and the instant
SmithyDateTime(t) == [millis |-> t * 1000]

\* DateTime::to_millis, then Utc.timestamp_millis_opt(..).unwrap()
FromSmithyDateTime(d) == d.millis \div 1000

----------------------------------------------------------------------------
(* GetOptions and the request built from them *)

\* GetRange: Bounded(start..end) | Offset(start) | Suffix(n)
Bounded(a, b) == [kind |-> "Bounded", start |-> a, end |-> b]
Offset(a) == [kind |-> "Offset", start |-> a, end |-> 0]
Suffix(n) == [kind |-> "Suffix", start |-> 0, end |-> n]

\* HttpRangeHeader that sends the exclusive end of a bounded range
HttpRangeHeader_ExclusiveEnd(range) ==
    CASE range.kind = "Bounded" ->
            S_bytes_eq \o FormatU64(range.start) \o <<"-">> \o FormatU64(range.end)
      [] range.kind = "Offset" ->
            S_bytes_eq \o FormatU64(range.start) \o <<"-">>
      [] range.kind = "Suffix" ->
            S_bytes_eq \o <<"0", "-">> \o FormatU64(range.end)

\* http/mod.rs: the match on the range in with_get_options
HttpRangeHeader(range) ==
    CASE range.kind = "Bounded" ->
            S_bytes_eq \o FormatU64(range.start) \o <<"-">>
                \o FormatU64(saturating_sub(range.end, 1))
      [] range.kind = "Offset" ->
            S_bytes_eq \o FormatU64(range.start) \o <<"-">>
      [] range.kind = "Suffix" ->
            S_bytes_eq \o <<"0", "-">> \o FormatU64(range.end)

\* aws/mod.rs: the match on the range in get_opts
S3RangeHeader(range) ==
    CASE range.kind = "Bounded" ->
            S_bytes_eq \o FormatU64(range.start) \o <<"-">>
                \o FormatU64(saturating_sub(range.end, 1))
      [] range.kind = "Offset" ->
            S_bytes_eq \o FormatU64(range.start) \o <<"-">>
      [] range.kind = "Suffix" ->
            S_bytes_eq \o <<"-">> \o FormatU64(range.end)

\* http/mod.rs: the method chosen by get_request and the headers set by
\* with_get_options
with_get_options(o) ==
    [method |-> IF o.head THEN "HEAD" ELSE "GET",
     range |-> IF IsSome(o.range) THEN Some(HttpRangeHeader(Unwrap(o.range))) ELSE None,
     if_match |-> o.if_match,
     if_none_match |-> o.if_none_match,
     if_unmodified_since |-> IF IsSome(o.if_unmodified_since)
                             THEN Some(FormatHttpDate(Unwrap(o.if_unmodified_since)))
                             ELSE None,
     if_modified_since |-> IF IsSome(o.if_modified_since)
                           THEN Some(FormatHttpDate(Unwrap(o.if_modified_since)))
                           ELSE None]

\* aws/mod.rs: the get_object request of get_opts; options.head is not read,
\* and the if_unmodified_since option is passed to the if_modified_since
\* setter, after the if_modified_since option
S3GetObjectRequest(o) ==
    [method |-> "GET",
     range |-> IF IsSome(o.range) THEN Some(S3RangeHeader(Unwrap(o.range))) ELSE None,
     if_match |-> o.if_match,
     if_none_match |-> o.if_none_match,
     if_unmodified_since |-> None,
     if_modified_since |-> IF IsSome(o.if_unmodified_since)
                           THEN Some(SmithyDateTime(Unwrap(o.if_unmodified_since)))
                           ELSE IF IsSome(o.if_modified_since)
                           THEN Some(SmithyDateTime(Unwrap(o.if_modified_since)))
                           ELSE None]

----------------------------------------------------------------------------
(* The server: an origin holding at most one object, answering a request *)

Min(a, b) == IF a <= b THEN a ELSE b

\* a Range header value read as a byte-range-spec of RFC 7233
ParseRangeHeader(h) ==
    LET spec == SubSeq(h, Len(S_bytes_eq) + 1, Len(h))
        i == IndexOf(spec, "-")
        left == SubSeq(spec, 1, i - 1)
        right == SubSeq(spec, i + 1, Len(spec))
        invalid == [kind |-> "invalid", first |-> 0, last |-> 0]
    IN IF ~StartsWith(h, S_bytes_eq) \/ i = 0 THEN invalid
       ELSE IF left = <<>>
            THEN IF IsSome(ParseU64(right))
                 THEN [kind |-> "suffix", first |-> 0, last |-> Unwrap(ParseU64(right))]
                 ELSE invalid
            ELSE IF ~IsSome(ParseU64(left)) THEN invalid
            ELSE IF right = <<>>
                 THEN [kind |-> "from", first |-> Unwrap(ParseU64(left)), last |-> 0]
                 ELSE IF IsSome(ParseU64(right))
                           /\ Unwrap(ParseU64(right)) >= Unwrap(ParseU64(left))
                      THEN [kind |-> "closed", first |-> Unwrap(ParseU64(left)),
                            last |-> Unwrap(ParseU64(right))]
                      ELSE invalid

\* the bytes [start, end) of an object of `size` bytes that a byte-range-spec
\* selects; None when the range cannot be satisfied (416)
ServedSlice(r, size) ==
    CASE r.kind = "closed" ->
            IF r.first >= size THEN None
            ELSE Some(<<r.first, Min(r.last, size - 1) + 1>>)
      [] r.kind = "from" ->
            IF r.first >= size THEN None ELSE Some(<<r.first, size>>)
      [] r.kind = "suffix" ->
            IF r.last = 0 \/ size = 0 THEN None
            ELSE Some(<<size - Min(r.last, size), size>>)

S_tag == <<"t">>

Response(status, len, crange, etag, lm) ==
    [status |-> status, content_length |-> len, content_range |-> crange,
     etag |-> etag, last_modified |-> lm]

ErrorResponse(status) ==
    Response(status, Some(FormatU64(0)), None, None, None)

\* "bytes a-b/size"
ContentRange(slice, size) ==
    S_bytes_sp \o FormatU64(slice[1]) \o <<"-">> \o FormatU64(slice[2] - 1)
        \o <<"/">> \o FormatU64(size)

\* every answer the server may give to a request
ServerResponses(req, obj) ==
    LET conditional == IsSome(req.if_match) \/ IsSome(req.if_none_match)
                         \/ IsSome(req.if_modified_since)
                         \/ IsSome(req.if_unmodified_since)
        r == IF IsSome(req.range) THEN ParseRangeHeader(Unwrap(req.range))
             ELSE [kind |-> "invalid", first |-> 0, last |-> 0]
        full == {Response(200, len, None, etag, lm) :
                    len \in {None, Some(FormatU64(obj.size))},
                    etag \in {None, Some(S_tag)}, lm \in {None, Some(FormatHttpDate(1))}}
        partial == IF r.kind = "invalid" \/ req.method = "HEAD" THEN {}
                   ELSE IF ServedSlice(r, obj.size) = None
                        THEN {ErrorResponse(416)}
                        ELSE LET sl == Unwrap(ServedSlice(r, obj.size))
                             IN {Response(206, Some(FormatU64(sl[2] - sl[1])),
                                          Some(ContentRange(sl, obj.size)), etag, lm) :
                                    etag \in {None, Some(S_tag)}, lm \in {None, Some(FormatHttpDate(1))}}
    IN IF ~obj.exists THEN {ErrorResponse(404), ErrorResponse(405)}
       ELSE full \cup partial \cup {ErrorResponse(500)}
            \cup (IF conditional THEN {ErrorResponse(304), ErrorResponse(412)} ELSE {})

----------------------------------------------------------------------------
(* http/mod.rs: header_meta, get_request, get_opts *)

HEADER_CONFIG == [etag_required |-> FALSE, last_modified_required |-> FALSE]

Meta(size, etag, lm) == [size |-> size, e_tag |-> etag, last_modified |-> lm]
NoMeta == Meta(0, None, 0)

\* header_meta that never fails for a missing ETag
header_meta_EtagOptional(headers, cfg) ==
    LET last_modified == IF IsSome(headers.last_modified)
                         THEN parse_from_rfc2822(Unwrap(headers.last_modified))
                         ELSE Some(0)
    IN IF ~IsSome(last_modified)
       THEN [ok |-> FALSE, err |-> "InvalidLastModified", meta |-> NoMeta]
       ELSE IF ~IsSome(headers.last_modified) /\ cfg.last_modified_required
       THEN [ok |-> FALSE, err |-> "MissingLastModified", meta |-> NoMeta]
       ELSE IF ~IsSome(headers.content_length)
       THEN [ok |-> FALSE, err |-> "MissingContentLength", meta |-> NoMeta]
       ELSE IF ~IsSome(ParseU64(Unwrap(headers.content_length)))
       THEN [ok |-> FALSE, err |-> "InvalidContentLength", meta |-> NoMeta]
       ELSE [ok |-> TRUE, err |-> "",
             meta |-> Meta(Unwrap(ParseU64(Unwrap(headers.content_length))),
                           headers.etag, Unwrap(last_modified))]

\* get_etag is inlined: Ok(e_tag) is Some, Err(MissingEtag) is None
header_meta(headers, cfg) ==
    LET last_modified == IF IsSome(headers.last_modified)
                         THEN parse_from_rfc2822(Unwrap(headers.last_modified))
                         ELSE Some(0)
    IN IF ~IsSome(last_modified)
       THEN [ok |-> FALSE, err |-> "InvalidLastModified", meta |-> NoMeta]
       ELSE IF ~IsSome(headers.last_modified) /\ cfg.last_modified_required
       THEN [ok |-> FALSE, err |-> "MissingLastModified", meta |-> NoMeta]
       ELSE IF ~IsSome(headers.etag) /\ cfg.etag_required
       THEN [ok |-> FALSE, err |-> "MissingEtag", meta |-> NoMeta]
       ELSE IF ~IsSome(headers.content_length)
       THEN [ok |-> FALSE, err |-> "MissingContentLength", meta |-> NoMeta]
       ELSE IF ~IsSome(ParseU64(Unwrap(headers.content_length)))
       THEN [ok |-> FALSE, err |-> "InvalidContentLength", meta |-> NoMeta]
       ELSE [ok |-> TRUE, err |-> "",
             meta |-> Meta(Unwrap(ParseU64(Unwrap(headers.content_length))),
                           headers.etag, Unwrap(last_modified))]

GetErr(kind, store, source) ==
    [ok |-> FALSE, err |-> [kind |-> kind, store |-> store, source |-> source],
     range |-> <<0, 0>>, meta |-> NoMeta]

GetOk(range, meta) ==
    [ok |-> TRUE, err |-> [kind |-> "", store |-> "", source |-> ""],
     range |-> range, meta |-> meta]

\* RangeNotHonoured that refuses only a 200 OK
RangeNotHonoured_Only200(o, resp) == IsSome(o.range) /\ resp.status = 200

\* the check of get_request on a response that send() delivered: true when
\* the response is refused
RangeNotHonoured(o, resp) == IsSome(o.range) /\ resp.status # 206

\* the match on the requested range at the end of get_opts
HttpResolvedRange(range, meta) ==
    IF ~IsSome(range) THEN <<0, meta.size>>
    ELSE CASE Unwrap(range).kind = "Bounded" ->
                <<Unwrap(range).start, Unwrap(range).end>>
           [] Unwrap(range).kind = "Offset" -> <<Unwrap(range).start, meta.size>>
           [] Unwrap(range).kind = "Suffix" -> <<0, Unwrap(range).end>>

\* InnerClient::get_opts once send() has delivered a response
InnerClient_get_opts(o, resp) ==
    IF RangeNotHonoured(o, resp)
    THEN GetErr("NotSupported", "HTTP", "NotImplemented")
    ELSE LET hm == header_meta(resp, HEADER_CONFIG)
         IN IF ~hm.ok THEN GetErr("Generic", "HTTP", hm.err)
            ELSE GetOk(HttpResolvedRange(o.range, hm.meta), hm.meta)

----------------------------------------------------------------------------
(* aws/mod.rs: get_opts once the SDK call has returned *)

\* the Content-Range string turned into numbers
S3ParseRange(content_range, size) ==
    LET text == IF IsSome(content_range) THEN Unwrap(content_range)
                ELSE FormatU64(0) \o <<"-">> \o FormatU64(size)
        trimmed == IF StartsWith(text, S_bytes_eq)
                   THEN SubSeq(text, Len(S_bytes_eq) + 1, Len(text)) ELSE text
        pieces == Split(trimmed, "-")
    IN IF \E i \in 1..Len(pieces) : ~IsSome(ParseU64(pieces[i]))
       THEN None
       ELSE Some([i \in 1..Len(pieces) |-> Unwrap(ParseU64(pieces[i]))])

\* the SDK turns a response that is not a success into an SdkError and reads
\* Content-Length, Content-Range, ETag and Last-Modified into typed fields
AmazonS3_get_opts(o, resp) ==
    IF resp.status \notin {200, 206}
    THEN GetErr("Generic", "S3", "S3GetObject")
    ELSE IF ~IsSome(resp.last_modified)
    THEN GetErr("Generic", "S3", "Unknown")
    ELSE IF ~IsSome(parse_from_rfc2822(Unwrap(resp.last_modified)))
    THEN GetErr("Generic", "S3", "S3GetObject")
    ELSE LET size == IF IsSome(resp.content_length)
                        /\ IsSome(ParseU64(Unwrap(resp.content_length)))
                     THEN Unwrap(ParseU64(Unwrap(resp.content_length))) ELSE 0
             range == S3ParseRange(resp.content_range, size)
         IN IF ~IsSome(range) THEN GetErr("Generic", "S3", "ParseInt")
            ELSE GetOk(<<Unwrap(range)[1], Unwrap(range)[2]>>,
                       Meta(size, resp.etag,
                            FromSmithyDateTime(SmithyDateTime(
                                Unwrap(parse_from_rfc2822(Unwrap(resp.last_modified)))))))

----------------------------------------------------------------------------
(* The call get_opts(location, options) on a store *)

MaxOff == 2      \* range offsets and lengths 0..MaxOff, and one of two digits
MaxSize == 3     \* object sizes 0..MaxSize, and one of two digits

\* ExponentialBuilder::default(): at most 3 retries after the first attempt
max_times == 3

Offsets == (0..MaxOff) \cup {11}
Sizes == (0..MaxSize) \cup {12}

Ranges ==
    {Bounded(a, b) : a \in Offsets, b \in Offsets}
    \cup {Offset(a) : a \in Offsets}
    \cup {Suffix(n) : n \in Offsets}

GetOptionsSet ==
    [range : {None} \cup {Some(r) : r \in Ranges},
     head : BOOLEAN,
     if_match : {None, Some(S_tag)},
     if_none_match : {None, Some(S_tag)},
     if_modified_since : {None, Some(5)},
     if_unmodified_since : {None, Some(7)}]

Objects ==
    {[exists |-> FALSE, size |-> 0]} \cup {[exists |-> TRUE, size |-> n] : n \in Sizes}

NoRequest == [method |-> "", range |-> None, if_match |-> None,
              if_none_match |-> None, if_unmodified_since |-> None,
              if_modified_since |-> None]
NoResponse == Response(0, None, None, None, None)
NoGetResult == GetErr("", "", "pending")

\* no parse_url_opts call is under way
OpenIdle ==
    /\ openPc = "idle"
    /\ url = <<>>
    /\ options = <<>>
    /\ opened = NoResult

InitGet ==
    /\ OpenIdle /\ MetaIdle /\ StoreIdle /\ UploadIdle /\ BridgeIdle
    /\ CallsIdle /\ StreamIdle /\ BuildIdle
    /\ getPc = "call"
    /\ variant \in {"http", "s3"}
    /\ getOptions \in GetOptionsSet
    /\ object \in Objects
    /\ request = NoRequest
    /\ attempts = 0
    /\ response = NoResponse
    /\ getResult = NoGetResult

\* the request is built and sent for the first time
GetCall ==
    /\ getPc = "call"
    /\ request' = IF variant = "http" THEN with_get_options(getOptions)
                  ELSE S3GetObjectRequest(getOptions)
    /\ attempts' = 1
    /\ getPc' = "sent"
    /\ UNCHANGED <<outsideGet, variant, getOptions, object, response, getResult>>

\* HttpRetry that allows one attempt more than the policy
HttpRetry_OnceMore ==
    /\ getPc = "sent" /\ variant = "http"
    /\ attempts <= max_times + 1
    /\ attempts' = attempts + 1
    /\ UNCHANGED <<outsideGet, getPc, variant, getOptions, object, request,
                   response, getResult>>

\* http: send() fails below the HTTP level and the retry policy sends the
\* same request again
HttpRetry ==
    /\ getPc = "sent" /\ variant = "http"
    /\ attempts <= max_times
    /\ attempts' = attempts + 1
    /\ UNCHANGED <<outsideGet, getPc, variant, getOptions, object, request,
                   response, getResult>>

\* http: send() fails when no retry is left; the error has no status
HttpGiveUp ==
    /\ getPc = "sent" /\ variant = "http"
    /\ attempts > max_times
    /\ getResult' = GetErr("Generic", "HTTP", "transport")
    /\ getPc' = "done"
    /\ UNCHANGED <<outsideGet, variant, getOptions, object, request, attempts,
                   response>>

\* http: send() delivers a response, whatever its status
HttpRespond ==
    /\ getPc = "sent" /\ variant = "http"
    /\ \E resp \in ServerResponses(request, object) :
          /\ response' = resp
          /\ getResult' = InnerClient_get_opts(getOptions, resp)
    /\ getPc' = "done"
    /\ UNCHANGED <<outsideGet, variant, getOptions, object, request, attempts>>

\* s3: the SDK call returns with the server's answer; S3 always sends
\* Content-Length
S3Respond ==
    /\ getPc = "sent" /\ variant = "s3"
    /\ \E resp \in ServerResponses(request, object) :
          /\ IsSome(resp.content_length)
          /\ response' = resp
          /\ getResult' = AmazonS3_get_opts(getOptions, resp)
    /\ getPc' = "done"
    /\ UNCHANGED <<outsideGet, variant, getOptions, object, request, attempts>>

\* s3: the SDK call fails without a response
S3SendFails ==
    /\ getPc = "sent" /\ variant = "s3"
    /\ getResult' = GetErr("Generic", "S3", "S3GetObject")
    /\ getPc' = "done"
    /\ UNCHANGED <<outsideGet, variant, getOptions, object, request, attempts,
                   response>>

NextGet ==
    \/ GetCall
    \/ HttpRetry
    \/ HttpGiveUp
    \/ HttpRespond
    \/ S3Respond
    \/ S3SendFails

SpecGet == InitGet /\ [][NextGet]_vars

\* the get and head calls of the HTTP store on which the retry is followed
\* to its end: any object, with or without a range and an If-None-Match
RetryOptions ==
    {o \in GetOptionsSet :
        /\ o.if_match = None
        /\ o.if_modified_since = None
        /\ o.if_unmodified_since = None
        /\ IsSome(o.range) => Unwrap(o.range).kind = "Offset"}

InitRetry ==
    /\ InitGet
    /\ variant = "http"
    /\ getOptions \in RetryOptions

NextRetry ==
    \/ GetCall
    \/ HttpRetry
    \/ HttpGiveUp
    \/ HttpRespond

\* every send() settles and every backoff timer fires: a call that can take
\* a step takes one
SpecRetry == InitRetry /\ [][NextRetry]_vars /\ WF_vars(NextRetry)

----------------------------------------------------------------------------
(* Vocabulary of the properties of get *)

RequestBuilt == getPc \in {"sent", "done"}
GotResponse == getPc = "done" /\ response # NoResponse
RangeIs(kind) == IsSome(getOptions.range) /\ Unwrap(getOptions.range).kind = kind
ReqRange == Unwrap(getOptions.range)

(* C7: a get with range Bounded(a, b) carries Range: bytes=a-(b-1), a get with
   range Offset(a) carries Range: bytes=a-, and a get without a range carries
   no Range header, on the S3 and on the HTTP store.  (b >= 1: the end of a
   half-open range that holds a byte.) *)
C7_RangeHeader ==
    RequestBuilt =>
        /\ ~IsSome(getOptions.range) => request.range = None
        /\ (RangeIs("Bounded") /\ ReqRange.end >= 1) =>
              request.range = Some(S_bytes_eq \o FormatU64(ReqRange.start) \o <<"-">>
                                   \o FormatU64(ReqRange.end - 1))
        /\ RangeIs("Offset") =>
              request.range = Some(S_bytes_eq \o FormatU64(ReqRange.start) \o <<"-">>)

C7_Witness ==
    /\ getPc = "done"
    /\ variant = "http"
    /\ getOptions.range = Some(Bounded(1, 11))
    /\ request.range = Some(<<"b", "y", "t", "e", "s", "=", "1", "-", "1", "0">>)
    /\ response.status = 206

(* C8: a get with range Suffix(N) carries Range: bytes=-N, on the S3 and on
   the HTTP store. *)
C8_SuffixHeader ==
    (RequestBuilt /\ RangeIs("Suffix")) =>
        request.range = Some(S_bytes_eq \o <<"-">> \o FormatU64(ReqRange.end))

(* C9: an HTTP get with a range option whose response has a status other than
   206 returns NotSupported, with no metadata and no body; without a range
   option the 206 check is not applied. *)
C9_RangedNeeds206 ==
    (GotResponse /\ variant = "http") =>
        /\ (IsSome(getOptions.range) /\ response.status # 206) =>
              /\ ~getResult.ok
              /\ getResult.err.kind = "NotSupported"
              /\ getResult.meta = NoMeta
        /\ (IsSome(getOptions.range) /\ response.status = 206) =>
              getResult.err.kind # "NotSupported"
        /\ ~IsSome(getOptions.range) =>
              /\ getResult.err.kind # "NotSupported"
              /\ (response.status = 200 /\ IsSome(response.content_length)) =>
                    getResult.ok

C9_Witness ==
    /\ GotResponse /\ variant = "http"
    /\ IsSome(getOptions.range)
    /\ response.status = 404
    /\ getResult.err.kind = "NotSupported"

\* the requested range resolved against the size of the object
EffectiveRange(range, size) ==
    IF ~IsSome(range) THEN <<0, size>>
    ELSE CASE Unwrap(range).kind = "Bounded" ->
                <<Unwrap(range).start, Min(Unwrap(range).end, size)>>
           [] Unwrap(range).kind = "Offset" -> <<Unwrap(range).start, size>>
           [] Unwrap(range).kind = "Suffix" ->
                <<size - Min(Unwrap(range).end, size), size>>

(* C10: the range an HTTP get returns is the requested range resolved against
   the total size S of the object: [0,S) without a range, [a,S) for Offset(a),
   [S-min(N,S),S) for Suffix(N), [a,min(b,S)) for Bounded(a,b); it lies
   within [0,S).  (Stated of the gets that the server answered with the
   object, 200 or 206.) *)
C10_EffectiveRange ==
    (/\ GotResponse /\ variant = "http" /\ getResult.ok
     /\ object.exists /\ response.status \in {200, 206}) =>
        /\ getResult.range = EffectiveRange(getOptions.range, object.size)
        /\ getResult.range[1] <= getResult.range[2]
        /\ getResult.range[2] <= object.size

(* C11: in every get result, of the S3 and of the HTTP store, metadata.size
   is the total size of the stored object, also when the response is a
   partial (206) response whose Content-Length is the length of the part. *)
C11_SizeIsTotal ==
    (/\ GotResponse /\ getResult.ok
     /\ object.exists /\ response.status \in {200, 206}) =>
        getResult.meta.size = object.size

(* C12: an HTTP get or head answered with status 404 or 405 returns NotFound,
   one answered with any other status outside 2xx returns Generic, and in
   neither case is a result with metadata returned. *)
C12_StatusMapping ==
    (GotResponse /\ variant = "http") =>
        /\ response.status \in {404, 405} =>
              (~getResult.ok /\ getResult.err.kind = "NotFound")
        /\ (response.status \notin {404, 405} /\ response.status \notin 200..299) =>
              (~getResult.ok /\ getResult.err.kind = "Generic")

(* C15: the request of a get is a HEAD (metadata only, no body) exactly when
   the head option is set, on the S3 and on the HTTP store. *)
C15_HeadOnly ==
    RequestBuilt => (request.method = "HEAD" <=> getOptions.head)

\* the precondition that carries the instant of a date option on a store
DatePrecondition(v, date) ==
    IF ~IsSome(date) THEN None
    ELSE IF v = "http" THEN Some(FormatHttpDate(Unwrap(date)))
    ELSE Some(SmithyDateTime(Unwrap(date)))

(* C16: each conditional option of a get sets its own precondition of the
   request and no other: if_match, if_none_match, if_modified_since and
   if_unmodified_since each carry the value of the option of the same name,
   and are absent when that option is not set, on the S3 and on the HTTP
   store. *)
C16_Conditionals ==
    RequestBuilt =>
        /\ request.if_match = getOptions.if_match
        /\ request.if_none_match = getOptions.if_none_match
        /\ request.if_modified_since =
              DatePrecondition(variant, getOptions.if_modified_since)
        /\ request.if_unmodified_since =
              DatePrecondition(variant, getOptions.if_unmodified_since)

----------------------------------------------------------------------------
(* The call header_meta(location, headers, cfg) *)

S_not_a_number == <<"1", "x">>

\* Content-Length values: the decimal of a size, and text that is no number
ContentLengths ==
    {Some(FormatU64(n)) : n \in Sizes} \cup {Some(S_not_a_number), Some(EmptyStr)}

\* Last-Modified values: the date of an instant, and text that is no date
LastModifieds ==
    {Some(FormatHttpDate(t)) : t \in {1, 59}} \cup {Some(S_yesterday)}

HeaderMaps ==
    [content_length : {None} \cup ContentLengths,
     etag : {None, Some(S_tag)},
     last_modified : {None} \cup LastModifieds]

HeaderConfigs == [etag_required : BOOLEAN, last_modified_required : BOOLEAN]

NoMetaResult == [ok |-> FALSE, err |-> "pending", meta |-> NoMeta]

InitMeta ==
    /\ OpenIdle /\ GetIdle /\ StoreIdle /\ UploadIdle /\ BridgeIdle
    /\ CallsIdle /\ StreamIdle /\ BuildIdle
    /\ metaPc = "call"
    /\ headerMap \in HeaderMaps
    /\ headerConfig \in HeaderConfigs
    /\ metaResult = NoMetaResult

ExtractMeta ==
    /\ metaPc = "call"
    /\ metaResult' = header_meta(headerMap, headerConfig)
    /\ metaPc' = "done"
    /\ UNCHANGED <<headerMap, headerConfig, outsideMeta>>

NextMeta == ExtractMeta

SpecMeta == InitMeta /\ [][NextMeta]_vars

MetaDone == metaPc = "done"

\* the header carries the decimal of a size / the date of an instant
WellFormedLength(h) == \E n \in Sizes : h.content_length = Some(FormatU64(n))
WellFormedDate(h) == \E t \in 0..59 : h.last_modified = Some(FormatHttpDate(t))

(* C14: header_meta fails when Content-Length is missing, whatever the
   configuration; a missing ETag makes it fail when etag_required is set and
   gives e_tag = None otherwise; a missing Last-Modified makes it fail when
   last_modified_required is set and gives the Unix epoch otherwise; and when
   every header that is present is well formed and no required header is
   missing it succeeds with the size, the ETag and the instant the headers
   state. *)
C14_HeaderMeta ==
    MetaDone =>
        /\ ~IsSome(headerMap.content_length) => ~metaResult.ok
        /\ (~IsSome(headerMap.etag) /\ headerConfig.etag_required) => ~metaResult.ok
        /\ (~IsSome(headerMap.etag) /\ metaResult.ok) => metaResult.meta.e_tag = None
        /\ (~IsSome(headerMap.last_modified) /\ headerConfig.last_modified_required) =>
              ~metaResult.ok
        /\ (~IsSome(headerMap.last_modified) /\ metaResult.ok) =>
              metaResult.meta.last_modified = 0
        /\ (/\ WellFormedLength(headerMap)
            /\ IsSome(headerMap.etag) \/ ~headerConfig.etag_required
            /\ \/ WellFormedDate(headerMap)
               \/ ~IsSome(headerMap.last_modified) /\ ~headerConfig.last_modified_required) =>
              /\ metaResult.ok
              /\ headerMap.content_length = Some(FormatU64(metaResult.meta.size))
              /\ metaResult.meta.e_tag = headerMap.etag
              /\ IsSome(headerMap.last_modified) =>
                    headerMap.last_modified =
                        Some(FormatHttpDate(metaResult.meta.last_modified))

C14_Witness ==
    /\ MetaDone
    /\ headerMap = [content_length |-> Some(<<"1", "2">>), etag |-> None,
                    last_modified |-> None]
    /\ headerConfig = [etag_required |-> FALSE, last_modified_required |-> FALSE]
    /\ metaResult = [ok |-> TRUE, err |-> "", meta |-> Meta(12, None, 0)]

----------------------------------------------------------------------------
(* The other operations of the ObjectStore trait, on HttpStore and on       *)
(* AmazonS3.  The server holds an object at each location of `keys`.  On    *)
(* the S3 store the actions are the calls the server answers; a request of  *)
(* the SDK that fails below HTTP is with the bridges further down.          *)

Locations == {<<"a">>, <<"b">>}

OpOk == [outcome |-> "Ok", kind |-> "", store |-> ""]
OpErr(kind, store) == [outcome |-> "Err", kind |-> kind, store |-> store]
\* todo!(): the call does not return
OpPanic == [outcome |-> "panic", kind |-> "todo", store |-> ""]

\* what send() of a request gave: a response with a status, or an error
\* below HTTP, which carries no status
Sent(status) == [ok |-> TRUE, status |-> status]
SendFailed == [ok |-> FALSE, status |-> 0]

\* the answers of an HTTP server to DELETE of a location
HttpDeleteAnswers(found) ==
    (IF found THEN {Sent(200), Sent(204)} ELSE {Sent(404)})
    \cup {Sent(405), Sent(500), SendFailed}

\* the answers of S3 to DeleteObject: 204 whether or not the key exists
S3DeleteAnswers == {Sent(204), Sent(403), Sent(500)}

\* the answers of S3 to CopyObject
S3CopyAnswers(found) ==
    (IF found THEN {Sent(200)} ELSE {Sent(404)}) \cup {Sent(403), Sent(500)}

\* the answers of S3 to ListObjectsV2 and to PutObject
S3Answers == {Sent(200), Sent(403), Sent(500)}

\* http/mod.rs InnerClient::delete: only an Err of send() is mapped, and the
\* error of a failed send() has no status
InnerClient_delete(sent) ==
    IF sent.ok THEN OpOk
    ELSE IF sent.status = 404 THEN OpErr("NotFound", "HTTP")
    ELSE OpErr("Generic", "HTTP")

\* the SDK returns Ok for a 2xx answer and an SdkError otherwise, which
\* aws/error.rs turns into Generic { store: "S3" }
SdkResult(sent) ==
    IF sent.ok /\ sent.status \in 200..299 THEN OpOk ELSE OpErr("Generic", "S3")

NoSent == [ok |-> FALSE, status |-> -1]

\* an operation and its outcome; every operation of the two stores calls
\* send() at most once
Op(op, from, to, found, sent, result) ==
    [op |-> op, from |-> from, to |-> to, found |-> found, sent |-> sent,
     requests |-> IF sent = NoSent THEN 0 ELSE 1, result |-> result]
NoOp == Op("", EmptyStr, EmptyStr, FALSE, NoSent, OpOk)

InitStore ==
    /\ OpenIdle /\ GetIdle /\ MetaIdle /\ UploadIdle /\ BridgeIdle
    /\ CallsIdle /\ StreamIdle /\ BuildIdle
    /\ storeKind \in {"http", "s3"}
    /\ keys \in SUBSET Locations
    /\ lastOp = NoOp

\* the program has not aborted
Running == lastOp.result.outcome # "panic"

\* HttpStore::delete
HttpDelete ==
    /\ Running /\ storeKind = "http"
    /\ \E k \in Locations : \E sent \in HttpDeleteAnswers(k \in keys) :
          /\ lastOp' = Op("delete", k, EmptyStr, k \in keys, sent,
                          InnerClient_delete(sent))
          /\ keys' = IF sent.ok /\ sent.status \in 200..299 THEN keys \ {k} ELSE keys
    /\ UNCHANGED <<storeKind, outsideStore>>

\* AmazonS3::delete
S3Delete ==
    /\ Running /\ storeKind = "s3"
    /\ \E k \in Locations : \E sent \in S3DeleteAnswers :
          /\ lastOp' = Op("delete", k, EmptyStr, k \in keys, sent, SdkResult(sent))
          /\ keys' = IF sent.status = 204 THEN keys \ {k} ELSE keys
    /\ UNCHANGED <<storeKind, outsideStore>>

\* HttpStore::copy: todo!()
HttpCopy ==
    /\ Running /\ storeKind = "http"
    /\ \E from \in Locations, to \in Locations :
          lastOp' = Op("copy", from, to, from \in keys, NoSent, OpPanic)
    /\ UNCHANGED <<storeKind, keys, outsideStore>>

\* AmazonS3::copy
S3Copy ==
    /\ Running /\ storeKind = "s3"
    /\ \E from \in Locations, to \in Locations :
       \E sent \in S3CopyAnswers(from \in keys) :
          /\ lastOp' = Op("copy", from, to, from \in keys, sent, SdkResult(sent))
          /\ keys' = IF sent.status = 200 THEN keys \cup {to} ELSE keys
    /\ UNCHANGED <<storeKind, outsideStore>>

\* HttpStore::copy_if_not_exists: todo!()
HttpCopyIfNotExists ==
    /\ Running /\ storeKind = "http"
    /\ \E from \in Locations, to \in Locations :
          lastOp' = Op("copy_if_not_exists", from, to, from \in keys, NoSent, OpPanic)
    /\ UNCHANGED <<storeKind, keys, outsideStore>>

\* AmazonS3::copy_if_not_exists: no request is made
S3CopyIfNotExists ==
    /\ Running /\ storeKind = "s3"
    /\ \E from \in Locations, to \in Locations :
          lastOp' = Op("copy_if_not_exists", from, to, from \in keys, NoSent,
                      OpErr("NotSupported", ""))
    /\ UNCHANGED <<storeKind, keys, outsideStore>>

\* HttpStore::list and HttpStore::list_with_delimiter: todo!()
HttpList ==
    /\ Running /\ storeKind = "http"
    /\ \E op \in {"list", "list_with_delimiter"} :
          lastOp' = Op(op, EmptyStr, EmptyStr, FALSE, NoSent, OpPanic)
    /\ UNCHANGED <<storeKind, keys, outsideStore>>

\* AmazonS3::list and AmazonS3::list_with_delimiter
S3List ==
    /\ Running /\ storeKind = "s3"
    /\ \E op \in {"list", "list_with_delimiter"} : \E sent \in S3Answers :
          lastOp' = Op(op, EmptyStr, EmptyStr, keys # {}, sent, SdkResult(sent))
    /\ UNCHANGED <<storeKind, keys, outsideStore>>

\* put_multipart, and abort_multipart of HttpStore: Err(NotImplemented)
PutMultipart ==
    /\ Running
    /\ \E k \in Locations :
       \E op \in {"put_multipart"} \cup (IF storeKind = "http"
                                          THEN {"abort_multipart"} ELSE {}) :
          lastOp' = Op(op, EmptyStr, k, k \in keys, NoSent,
                      OpErr("NotImplemented", ""))
    /\ UNCHANGED <<storeKind, keys, outsideStore>>

\* HttpStore::put_opts: NotImplemented unless the mode is Overwrite, and
\* then InnerClient::put, which is todo!()
HttpPut ==
    /\ Running /\ storeKind = "http"
    /\ \E k \in Locations : \E overwrite \in BOOLEAN :
          lastOp' = Op("put", EmptyStr, k, k \in keys, NoSent,
                      IF overwrite THEN OpPanic ELSE OpErr("NotImplemented", ""))
    /\ UNCHANGED <<storeKind, keys, outsideStore>>

\* AmazonS3::put_opts
S3Put ==
    /\ Running /\ storeKind = "s3"
    /\ \E k \in Locations : \E sent \in S3Answers :
          /\ lastOp' = Op("put", EmptyStr, k, k \in keys, sent, SdkResult(sent))
          /\ keys' = IF sent.status = 200 THEN keys \cup {k} ELSE keys
    /\ UNCHANGED <<storeKind, outsideStore>>

NextStore ==
    \/ HttpDelete
    \/ S3Delete
    \/ HttpCopy
    \/ S3Copy
    \/ HttpCopyIfNotExists
    \/ S3CopyIfNotExists
    \/ HttpList
    \/ S3List
    \/ PutMultipart
    \/ HttpPut
    \/ S3Put

SpecStore == InitStore /\ [][NextStore]_vars

(* C13: delete of a location at which the server holds no object returns
   NotFound on the HTTP store, whose server answers 404, and returns success
   on the S3 store. *)
C13_DeleteMissing ==
    (lastOp.op = "delete" /\ ~lastOp.found) =>
        /\ (storeKind = "http" /\ lastOp.sent = Sent(404)) =>
              (lastOp.result.outcome = "Err" /\ lastOp.result.kind = "NotFound")
        /\ (storeKind = "s3" /\ lastOp.sent = Sent(204)) => lastOp.result = OpOk

(* C17: copy_if_not_exists returns a NotSupported error on the S3 and on the
   HTTP store; copy, list and list_with_delimiter of the HTTP store return a
   NotSupported or NotImplemented error; and no operation aborts in place of
   returning an error. *)
C17_UnimplementedTyped ==
    /\ lastOp.op = "copy_if_not_exists" =>
          (lastOp.result.outcome = "Err" /\ lastOp.result.kind = "NotSupported")
    /\ (storeKind = "http" /\ lastOp.op \in {"copy", "list", "list_with_delimiter"}) =>
          /\ lastOp.result.outcome = "Err"
          /\ lastOp.result.kind \in {"NotSupported", "NotImplemented"}
    /\ lastOp.op \in {"copy_if_not_exists", "copy", "list", "list_with_delimiter"} =>
          lastOp.result.outcome # "panic"

----------------------------------------------------------------------------
(* aws/multipart.rs: MultiPartUpload::put_part and MultiPartUpload::complete *)

MaxParts == 2       \* part indices 0..MaxParts-1
MaxPartSize == 2    \* a part holds 1..MaxPartSize bytes

PartIndices == 0..(MaxParts - 1)
PartSizes == 1..MaxPartSize

\* the ETags the server gives to parts: a quoted tag as S3 gives it, and
\* tags that are decimal numbers
S_quoted_tag == <<"\"", "t", "\"">>
ETags == {S_quoted_tag, <<"1">>, <<"2">>}

I32_MAX == 2147483647

\* str::parse::<i32>: an optional sign, then digits; None stands for
\* Err(ParseIntError)
ParseI32(s) ==
    LET signed == s # <<>> /\ s[1] \in {"+", "-"}
        digits == IF signed THEN Tail(s) ELSE s
        value == IF signed /\ s[1] = "-" THEN 0 - DigitsValue(digits)
                 ELSE DigitsValue(digits)
    IN IF /\ digits # <<>>
          /\ \A i \in 1..Len(digits) : IsDigit(digits[i])
          /\ value >= (0 - I32_MAX) - 1 /\ value <= I32_MAX
       THEN Some(value) ELSE None

\* the answers of S3 to UploadPart: 200 with the ETag of the part, 200
\* without an ETag header, or an error
UploadPartAnswers ==
    {[sent |-> Sent(200), e_tag |-> Some(t)] : t \in ETags}
    \cup {[sent |-> Sent(200), e_tag |-> None], [sent |-> Sent(500), e_tag |-> None]}

\* put_part: the part number sent and the Result, given the answer
put_part(part_idx, answer) ==
    LET part == part_idx + 1
    IN [part_number |-> part,
        result |-> IF SdkResult(answer.sent) # OpOk THEN SdkResult(answer.sent)
                   ELSE IF ~IsSome(answer.e_tag) THEN OpErr("Generic", "S3")
                   ELSE OpOk,
        part_id |-> IF SdkResult(answer.sent) = OpOk THEN answer.e_tag ELSE None]

\* complete: the part numbers of the CompletedMultipartUpload, each parsed
\* from the content_id of a PartId; None when a parse fails
complete_parts(completed_parts) ==
    IF \E i \in 1..Len(completed_parts) : ~IsSome(ParseI32(completed_parts[i]))
    THEN None
    ELSE Some([i \in 1..Len(completed_parts) |-> Unwrap(ParseI32(completed_parts[i]))])

\* S3 accepts a CompleteMultipartUpload whose part numbers are ascending and
\* name uploaded parts
ServerAcceptsParts(numbers, uploaded) ==
    /\ numbers # <<>>
    /\ \A i \in 1..Len(numbers) :
          numbers[i] \in DOMAIN uploaded /\ IsSome(uploaded[numbers[i]])
    /\ \A i \in 1..(Len(numbers) - 1) : numbers[i] < numbers[i + 1]

CompleteAnswers(numbers, uploaded) ==
    (IF ServerAcceptsParts(numbers, uploaded) THEN {Sent(200)} ELSE {Sent(400)})
    \cup {Sent(500)}

RECURSIVE SumSizes(_, _)
SumSizes(numbers, uploaded) ==
    IF numbers = <<>> THEN 0
    ELSE Unwrap(uploaded[Head(numbers)]).size + SumSizes(Tail(numbers), uploaded)

Completion(called, completed_parts, submitted, sent, result, object_size) ==
    [called |-> called, completed_parts |-> completed_parts,
     submitted |-> submitted, sent |-> sent, result |-> result,
     object_size |-> object_size]
NoCompletion == Completion(FALSE, <<>>, None, NoSent, OpOk, None)

InitUpload ==
    /\ OpenIdle /\ GetIdle /\ MetaIdle /\ StoreIdle /\ BridgeIdle
    /\ CallsIdle /\ StreamIdle /\ BuildIdle
    /\ uploadParts = [n \in 1..MaxParts |-> None]
    /\ partIds = [i \in PartIndices |-> None]
    /\ completion = NoCompletion

\* put_part(buf, part_idx) for a part that has no PartId yet
PutPart ==
    /\ ~completion.called
    /\ \E idx \in PartIndices : \E size \in PartSizes : \E answer \in UploadPartAnswers :
          LET r == put_part(idx, answer)
          IN /\ partIds[idx] = None
             /\ uploadParts' =
                   IF answer.sent = Sent(200)
                   THEN [uploadParts EXCEPT ![r.part_number] =
                            Some([size |-> size])]
                   ELSE uploadParts
             /\ partIds' = IF r.result = OpOk
                           THEN [partIds EXCEPT ![idx] = r.part_id] ELSE partIds
    /\ UNCHANGED <<completion, outsideUpload>>

\* the indices 0..n-1 that have a PartId, when they are a prefix
UploadedCount == Cardinality({i \in PartIndices : IsSome(partIds[i])})
UploadedPrefix == \A i \in PartIndices : IsSome(partIds[i]) <=> i < UploadedCount

\* the PartIds put_part returned, by index
ReturnedPartIds == [i \in 1..UploadedCount |-> Unwrap(partIds[i - 1])]

\* complete(completed_parts) with the PartIds put_part returned, in some order
Complete ==
    /\ ~completion.called
    /\ UploadedCount >= 1 /\ UploadedPrefix
    /\ \E order \in Permutations(1..UploadedCount) :
          LET completed_parts == [i \in 1..UploadedCount |-> ReturnedPartIds[order[i]]]
              numbers == complete_parts(completed_parts)
          IN IF ~IsSome(numbers)
             THEN completion' = Completion(TRUE, completed_parts, None, NoSent,
                                           OpErr("Generic", "S3"), None)
             ELSE \E sent \in CompleteAnswers(Unwrap(numbers), uploadParts) :
                     completion' =
                        Completion(TRUE, completed_parts, numbers, sent, SdkResult(sent),
                                   IF sent = Sent(200)
                                   THEN Some(SumSizes(Unwrap(numbers), uploadParts))
                                   ELSE None)
    /\ UNCHANGED <<uploadParts, partIds, outsideUpload>>

NextUpload ==
    \/ PutPart
    \/ Complete

SpecUpload == InitUpload /\ [][NextUpload]_vars

\* the sizes of the parts with part numbers 1..n
RECURSIVE SizeOfFirst(_, _)
SizeOfFirst(n, uploaded) ==
    IF n = 0 THEN 0 ELSE Unwrap(uploaded[n]).size + SizeOfFirst(n - 1, uploaded)

(* C18: when the parts with indices 0..n-1 were uploaded with put_part and
   complete is called with the PartIds put_part returned, in the order of
   the indices, then, unless the server fails, complete succeeds, the parts
   it submits are numbered 1..n, and the size of the object is the sum of
   the sizes of the parts. *)
C18_MultipartRoundTrip ==
    (/\ completion.called
     /\ completion.completed_parts = ReturnedPartIds
     /\ completion.sent # Sent(500)) =>
        /\ completion.result = OpOk
        /\ completion.submitted = Some([i \in 1..UploadedCount |-> i])
        /\ completion.object_size = Some(SizeOfFirst(UploadedCount, uploadParts))

----------------------------------------------------------------------------
(* The bridges: Adapter::call (aws/builder.rs), HttpStore::get_opts and     *)
(* HttpStore::delete (http/mod.rs).  Each creates a oneshot channel, spawns *)
(* a task that makes the request and sends the outcome into the channel,    *)
(* and awaits the receiving end.                                            *)

BridgeKinds == {"adapter", "http_get", "http_delete"}

\* access key ids a store is built with
S_access_keys == S_access_key \o <<"s">>
AccessKeyIds == {S_access_key, V_ak, S_access_keys}

Methods == {"GET", "HEAD", "PUT", "DELETE"}

\* Adapter::new
Adapter_new(use_mock) == [use_mock |-> use_mock]

\* MockedHttpClient::send: the same response for every request
MockedHttpClient_send(method) == [status |-> 200, body |-> "canned"]

\* BrowserHttpClient::send once the fetch has settled with a response
BrowserResponse(status) == [status |-> status, body |-> "served"]

\* what a fetch of the host settles with
FetchOutcomes == {Sent(200), Sent(404), Sent(500), SendFailed}

DefaultGetOptions ==
    [range |-> None, head |-> FALSE, if_match |-> None, if_none_match |-> None,
     if_modified_since |-> None, if_unmodified_since |-> None]

BridgedResponse(status) ==
    IF status = 200 THEN Response(200, Some(FormatU64(1)), None, None, None)
    ELSE ErrorResponse(status)

\* the value the task of an HTTP bridge sends: the Result of the inner call
InnerResult(kind, sent) ==
    IF kind = "http_delete" THEN InnerClient_delete(sent)
    ELSE IF sent.ok
         THEN InnerClient_get_opts(DefaultGetOptions, BridgedResponse(sent.status))
         ELSE GetErr("Generic", "HTTP", "transport")

InitBridge ==
    /\ OpenIdle /\ GetIdle /\ MetaIdle /\ StoreIdle /\ UploadIdle
    /\ CallsIdle /\ StreamIdle /\ BuildIdle
    /\ bridgeKind \in BridgeKinds
    /\ credential \in (IF bridgeKind = "adapter" THEN AccessKeyIds ELSE {EmptyStr})
    /\ bridged \in (CASE bridgeKind = "adapter" -> Methods
                     [] bridgeKind = "http_get" -> {"GET"}
                     [] bridgeKind = "http_delete" -> {"DELETE"})
    /\ adapter = IF bridgeKind = "adapter" THEN Adapter_new(UseMock(credential))
                 ELSE <<>>
    /\ callerPc = "call"
    /\ taskPc = "idle"
    /\ fetches = 0
    /\ taskResult = None
    /\ channel = None
    /\ callerResult = None

\* the channel is created, the task is spawned, the caller awaits the
\* receiving end
BridgeCall ==
    /\ callerPc = "call"
    /\ callerPc' = "awaiting"
    /\ taskPc' = "spawned"
    /\ UNCHANGED <<bridgeKind, credential, bridged, adapter, fetches, taskResult,
                   channel, callerResult, outsideBridge>>

\* adapter with use_mock: the task takes the canned response, without a fetch
TaskMock ==
    /\ taskPc = "spawned"
    /\ bridgeKind = "adapter" /\ adapter.use_mock
    /\ taskResult' = Some(MockedHttpClient_send(bridged))
    /\ taskPc' = "fetched"
    /\ UNCHANGED <<bridgeKind, credential, bridged, adapter, callerPc, fetches,
                   channel, callerResult, outsideBridge>>

\* the task dispatches a fetch to the host
TaskFetch ==
    /\ taskPc = "spawned"
    /\ ~(bridgeKind = "adapter" /\ adapter.use_mock)
    /\ fetches' = fetches + 1
    /\ taskPc' = "fetching"
    /\ UNCHANGED <<bridgeKind, credential, bridged, adapter, callerPc, taskResult,
                   channel, callerResult, outsideBridge>>

\* http_get: the fetch fails and the retry policy dispatches it again
TaskRetry ==
    /\ taskPc = "fetching"
    /\ bridgeKind = "http_get" /\ fetches <= max_times
    /\ fetches' = fetches + 1
    /\ UNCHANGED <<bridgeKind, credential, bridged, adapter, callerPc, taskPc,
                   taskResult, channel, callerResult, outsideBridge>>

\* the fetch settles: the task holds the value to send; the adapter panics
\* on a failed fetch (unwrap_or_else(|_| panic!(..)))
FetchSettles ==
    /\ taskPc = "fetching"
    /\ \E sent \in FetchOutcomes :
          /\ (bridgeKind = "http_get" /\ ~sent.ok) => fetches > max_times
          /\ IF bridgeKind = "adapter"
             THEN IF sent.ok
                  THEN /\ taskResult' = Some(BrowserResponse(sent.status))
                       /\ taskPc' = "fetched"
                  ELSE /\ taskResult' = None
                       /\ taskPc' = "panicked_fetch"
             ELSE /\ taskResult' = Some(InnerResult(bridgeKind, sent))
                  /\ taskPc' = "fetched"
    /\ UNCHANGED <<bridgeKind, credential, bridged, adapter, callerPc, fetches,
                   channel, callerResult, outsideBridge>>

\* the task sends its value: into the slot while the receiver lives; when
\* the receiver is gone send returns Err, which the adapter ignores
\* (let _ =) and the HTTP bridges unwrap
TaskSend ==
    /\ taskPc = "fetched"
    /\ IF callerPc = "dropped"
       THEN /\ channel' = channel
            /\ taskPc' = IF bridgeKind = "adapter" THEN "finished"
                         ELSE "panicked_send"
       ELSE /\ channel' = taskResult
            /\ taskPc' = "finished"
    /\ UNCHANGED <<bridgeKind, credential, bridged, adapter, callerPc, fetches,
                   taskResult, callerResult, outsideBridge>>

\* the awaiting side takes the value out of the slot
CallerReceive ==
    /\ callerPc = "awaiting"
    /\ IsSome(channel)
    /\ callerResult' = channel
    /\ callerPc' = "received"
    /\ UNCHANGED <<bridgeKind, credential, bridged, adapter, taskPc, fetches,
                   taskResult, channel, outsideBridge>>

\* the awaiting side is cancelled: its future, and with it the receiving
\* end, is dropped
CallerCancel ==
    /\ callerPc = "awaiting"
    /\ callerPc' = "dropped"
    /\ UNCHANGED <<bridgeKind, credential, bridged, adapter, taskPc, fetches,
                   taskResult, channel, callerResult, outsideBridge>>

NextBridge ==
    \/ BridgeCall
    \/ TaskMock
    \/ TaskFetch
    \/ TaskRetry
    \/ FetchSettles
    \/ TaskSend
    \/ CallerReceive
    \/ CallerCancel

SpecBridge == InitBridge /\ [][NextBridge]_vars

TaskRan == taskPc \in {"fetching", "fetched", "finished", "panicked_fetch",
                       "panicked_send"}

(* C19: the adapter of a store uses the mock transport exactly when the
   access key id the store was built with is the string "access_key"; the
   mock transport answers every request with the same status-200 payload and
   dispatches no fetch, and with any other access key id the task dispatches
   a fetch for every request. *)
C19_MockTransport ==
    bridgeKind = "adapter" =>
        /\ adapter.use_mock <=> credential = S_access_key
        /\ credential = S_access_key =>
              /\ fetches = 0
              /\ IsSome(taskResult) =>
                    taskResult = Some([status |-> 200, body |-> "canned"])
              /\ IsSome(callerResult) =>
                    callerResult = Some([status |-> 200, body |-> "canned"])
        /\ (credential # S_access_key /\ TaskRan) => fetches = 1

C19_Witness ==
    /\ bridgeKind = "adapter"
    /\ credential = S_access_key
    /\ bridged = "PUT"
    /\ callerPc = "received"
    /\ callerResult = Some([status |-> 200, body |-> "canned"])
    /\ fetches = 0

(* C20: when the awaiting side of a bridge is cancelled after the task was
   spawned and before the task delivers, the task does not fail because the
   receiver is gone, and its result is discarded; for the adapter of the S3
   store and for the get and delete bridges of the HTTP store. *)
C20_CancelSafe ==
    callerPc = "dropped" =>
        /\ taskPc # "panicked_send"
        /\ callerResult = None

----------------------------------------------------------------------------
(* The bucket of an opened S3 store *)

\* a path-style or R2 URL whose path has no bucket segment
NoBucketSegment(u) ==
    /\ u.scheme = "https"
    /\ IsSome(u.host)
    /\ PathStyleHost(HostOf(u)) \/ R2Host(HostOf(u))
    /\ NonEmptyPieces(u.path) = <<>>

(* C29: every S3 store that openStore returns has a non-empty bucket name; a
   path-style or R2 URL without a bucket segment never yields a store with
   an empty bucket and leaves a bucket given by the configuration as it
   is. *)
C29_BucketNonEmpty ==
    OpenedS3 =>
        /\ opened.store.bucket # EmptyStr
        /\ (NoBucketSegment(url) /\ IsSome(ConfigValue(options, "Bucket"))) =>
              opened.store.bucket = Unwrap(ConfigValue(options, "Bucket"))

----------------------------------------------------------------------------
(* AmazonS3Builder::build, called on a builder in any state that new,       *)
(* with_url and with_config can leave it in.                                *)

\* the value of the url field: unset, or one of the URLs with a host and at
\* most one path segment
BuilderUrls ==
    {None} \cup {Some(u) : u \in {x \in Urls : IsSome(x.host) /\ Len(x.path) <= 2}}

Builders ==
    {[bucket |-> bk, region |-> rg, access_key_id |-> ak,
      secret_access_key |-> sk, session_token |-> None, endpoint |-> None,
      url |-> u] :
        bk \in {None, Some(V_cfg)}, rg \in {None, Some(V_eu)},
        ak \in {None, Some(V_ak), Some(S_access_key)},
        sk \in {None, Some(V_sk)}, u \in BuilderUrls}

InitBuild ==
    /\ OpenIdle /\ GetIdle /\ MetaIdle /\ StoreIdle /\ UploadIdle /\ BridgeIdle
    /\ CallsIdle /\ StreamIdle
    /\ buildPc = "call"
    /\ builder \in Builders
    /\ buildResult = None

\* build() runs to its end: parse_url, the three ok_or(Error::Unknown)?, the
\* construction of the client and of the store
Build ==
    /\ buildPc = "call"
    /\ buildResult' = Some(AmazonS3Builder_build(builder))
    /\ buildPc' = "done"
    /\ UNCHANGED <<builder, outsideBuild>>

NextBuild == Build

SpecBuild == InitBuild /\ [][NextBuild]_vars

BuildDone == buildPc = "done"
BuildOk == BuildDone /\ Unwrap(buildResult).ok

(* C28: build fails with the error Unknown, and dispatches no request, when
   the access key id or the secret access key is unset, or when the bucket
   is unset and there is no URL to take it from; build returns a store only
   when the access key id and the secret access key are set and the bucket
   is set or a URL is given, and the store carries the credentials. *)
C28_BuildRequires ==
    BuildDone =>
        /\ (~IsSome(builder.access_key_id) \/ ~IsSome(builder.secret_access_key)
            \/ (~IsSome(builder.bucket) /\ ~IsSome(builder.url))) =>
              /\ ~Unwrap(buildResult).ok
              /\ ~IsSome(builder.url) =>
                    Unwrap(buildResult).err = GenericErr("S3", "Unknown")
        /\ Unwrap(buildResult).ok =>
              /\ Some(Unwrap(buildResult).store.access_key_id) = builder.access_key_id
              /\ Some(Unwrap(buildResult).store.secret_access_key)
                    = builder.secret_access_key
              /\ IsSome(builder.bucket) \/ IsSome(builder.url)
              /\ ~IsSome(builder.url) =>
                    Some(Unwrap(buildResult).store.bucket) = builder.bucket
        /\ fetches = 0

C28_Witness ==
    /\ BuildDone
    /\ builder.url = None
    /\ builder.bucket = None
    /\ builder.access_key_id = Some(V_ak)
    /\ builder.secret_access_key = Some(V_sk)
    /\ Unwrap(buildResult) = [ok |-> FALSE, err |-> GenericErr("S3", "Unknown")]

----------------------------------------------------------------------------
(* The effective range of an S3 get *)

\* the half-open range [a, b+1) that a Content-Range "bytes a-b/total" names
ContentRangeSlice(text) ==
    LET spec == SubSeq(text, Len(S_bytes_sp) + 1, Len(text))
        slash == IndexOf(spec, "/")
        span == SubSeq(spec, 1, slash - 1)
        dash == IndexOf(span, "-")
    IN <<Unwrap(ParseU64(SubSeq(span, 1, dash - 1))),
         Unwrap(ParseU64(SubSeq(span, dash + 1, Len(span)))) + 1>>

(* C26: an S3 get with a range option that is answered with a success and a
   Last-Modified succeeds; with a Content-Range "bytes a-b/total" in the
   answer it returns the range [a, b+1), and without a Content-Range it
   returns [0, size). *)
C26_ContentRange ==
    (/\ GotResponse /\ variant = "s3" /\ IsSome(getOptions.range)
     /\ response.status \in {200, 206} /\ IsSome(response.last_modified)) =>
        /\ getResult.ok
        /\ IsSome(response.content_range) =>
              getResult.range = ContentRangeSlice(Unwrap(response.content_range))
        /\ ~IsSome(response.content_range) =>
              getResult.range = <<0, Unwrap(ParseU64(Unwrap(response.content_length)))>>

----------------------------------------------------------------------------
(* C27: complete submits the parts in ascending order of their part numbers,
   in whatever order they are passed in; when a part identifier is not an
   integer complete fails with the conversion error and sends no request to
   the backend. *)
C27_CompleteSorted ==
    completion.called =>
        /\ IsSome(completion.submitted) =>
              \A i, j \in 1..Len(Unwrap(completion.submitted)) :
                 i < j => Unwrap(completion.submitted)[i]
                            <= Unwrap(completion.submitted)[j]
        /\ (\E i \in 1..Len(completion.completed_parts) :
               ~IsSome(ParseI32(completion.completed_parts[i]))) =>
              /\ completion.result = OpErr("Generic", "S3")
              /\ completion.sent = NoSent
              /\ completion.submitted = None

----------------------------------------------------------------------------
(* C24: an HTTP delete whose request fails below the HTTP level is sent
   again under the retry policy of get: delete returns the failure only
   after the first request and max_times further ones have failed. *)
C24_DeleteRetried ==
    (storeKind = "http" /\ lastOp.op = "delete" /\ lastOp.sent = SendFailed) =>
        lastOp.requests = max_times + 1

----------------------------------------------------------------------------
(* C22: when the fetch of a request of the S3 store fails below the HTTP
   level, the task of Adapter::call does not panic: it holds a result for
   the awaiting side, as it does when the fetch gives a response. *)
C22_FetchFailureDelivered ==
    (bridgeKind = "adapter" /\ TaskRan /\ taskPc # "fetching") =>
        /\ taskPc # "panicked_fetch"
        /\ IsSome(taskResult)

----------------------------------------------------------------------------
(* The retry of InnerClient::get_request *)

\* a step that sends the request of an HTTP get or head once more
NewAttempt == variant = "http" /\ attempts > 0 /\ attempts' # attempts

(* C23: the request of an HTTP get or head is sent again only while no
   response has arrived, send() having failed below HTTP, and it is the same
   request; a response of any status ends the call, with no further attempt;
   at most max_times + 1 attempts are made; a call that ends without a
   response returns the transport failure after the last of them; and every
   call ends. *)
C23_Retry ==
    /\ [][NewAttempt =>
            /\ getPc = "sent" /\ getPc' = "sent"
            /\ response = NoResponse /\ response' = NoResponse
            /\ attempts' = attempts + 1
            /\ request' = request]_vars
    /\ [](variant = "http" =>
            /\ attempts <= max_times + 1
            /\ GotResponse => getResult = InnerClient_get_opts(getOptions, response)
            /\ (getPc = "done" /\ response = NoResponse) =>
                  /\ getResult = GetErr("Generic", "HTTP", "transport")
                  /\ attempts = max_times + 1)
    /\ <>(getPc = "done")

C23_Witness ==
    /\ variant = "http"
    /\ getPc = "done"
    /\ attempts = max_times + 1
    /\ response = NoResponse
    /\ getResult = GetErr("Generic", "HTTP", "transport")

----------------------------------------------------------------------------
(* Concurrent calls through a bridge: Adapter::call (aws/builder.rs) and    *)
(* HttpStore::get_opts (http/mod.rs).  Every call creates its own oneshot   *)
(* channel and moves the sending end into the task it spawns.               *)

MaxCalls == 2    \* calls issued concurrently against one store

CallIds == 1..MaxCalls

CallKinds == {"adapter", "http_get"}

\* ChannelOf for a bridge that keeps one channel for all its calls
ChannelOf_Shared(i) == 1

\* the channel whose sending end the task of call i holds: the one created
\* by that call
ChannelOf(i) == i

\* what the task of call i holds once the fetch of its request has settled
CallValue(kind, i, sent) ==
    [request |-> i,
     outcome |-> IF kind = "adapter" THEN BrowserResponse(sent.status)
                 ELSE InnerResult("http_get", sent)]

NewCall ==
    [callerPc |-> "call", taskPc |-> "idle", fetches |-> 0, taskResult |-> None,
     slot |-> None, result |-> None]

InitCalls ==
    /\ OpenIdle /\ GetIdle /\ MetaIdle /\ StoreIdle /\ UploadIdle /\ BridgeIdle
    /\ StreamIdle /\ BuildIdle
    /\ callsKind \in CallKinds
    /\ calls = [i \in CallIds |-> NewCall]

\* call i creates its channel, spawns its task and awaits the receiving end
CallIssue(i) ==
    /\ calls[i].callerPc = "call"
    /\ calls' = [calls EXCEPT ![i].callerPc = "awaiting", ![i].taskPc = "spawned"]
    /\ UNCHANGED <<callsKind, outsideCalls>>

\* the task of call i dispatches the fetch of its request
CallTaskFetch(i) ==
    /\ calls[i].taskPc = "spawned"
    /\ calls' = [calls EXCEPT ![i].taskPc = "fetching", ![i].fetches = 1]
    /\ UNCHANGED <<callsKind, outsideCalls>>

\* http_get: the fetch of call i fails and the retry policy dispatches it again
CallTaskRetry(i) ==
    /\ calls[i].taskPc = "fetching"
    /\ callsKind = "http_get" /\ calls[i].fetches <= max_times
    /\ calls' = [calls EXCEPT ![i].fetches = @ + 1]
    /\ UNCHANGED <<callsKind, outsideCalls>>

\* the fetch of call i settles; the adapter panics on a failed fetch
CallFetchSettles(i) ==
    /\ calls[i].taskPc = "fetching"
    /\ \E sent \in FetchOutcomes :
          /\ (callsKind = "http_get" /\ ~sent.ok) => calls[i].fetches > max_times
          /\ calls' = IF callsKind = "adapter" /\ ~sent.ok
                      THEN [calls EXCEPT ![i].taskPc = "panicked_fetch"]
                      ELSE [calls EXCEPT
                              ![i].taskPc = "fetched",
                              ![i].taskResult = Some(CallValue(callsKind, i, sent))]
    /\ UNCHANGED <<callsKind, outsideCalls>>

\* the task of call i sends its value into its channel
CallTaskSend(i) ==
    /\ calls[i].taskPc = "fetched"
    /\ calls' = [calls EXCEPT ![i].taskPc = "finished",
                              ![ChannelOf(i)].slot = calls[i].taskResult]
    /\ UNCHANGED <<callsKind, outsideCalls>>

\* the awaiting side of call i takes the value out of its channel
CallReceive(i) ==
    /\ calls[i].callerPc = "awaiting"
    /\ IsSome(calls[i].slot)
    /\ calls' = [calls EXCEPT ![i].callerPc = "received",
                              ![i].result = calls[i].slot,
                              ![i].slot = None]
    /\ UNCHANGED <<callsKind, outsideCalls>>

CallStep(i) ==
    \/ CallIssue(i)
    \/ CallTaskFetch(i)
    \/ CallTaskRetry(i)
    \/ CallFetchSettles(i)
    \/ CallTaskSend(i)
    \/ CallReceive(i)

NextCalls == \E i \in CallIds : CallStep(i)

\* spawn_local runs every spawned task and every woken future: a call or a
\* task that can take a step takes one
SpecCalls ==
    InitCalls /\ [][NextCalls]_vars /\ \A i \in CallIds : WF_vars(CallStep(i))

(* C21: of calls issued concurrently through one bridge, under every
   interleaving of their tasks, each receives at most one result, the result
   is the one its own task held for its own request, and every call whose
   task has sent its value receives it. *)
C21_OwnResult ==
    /\ [](\A i \in CallIds :
            /\ IsSome(calls[i].result) =>
                  /\ calls[i].callerPc = "received"
                  /\ calls[i].result = calls[i].taskResult
                  /\ Unwrap(calls[i].result).request = i
            /\ IsSome(calls[i].slot) => calls[i].slot = calls[i].taskResult)
    /\ [][\A i \in CallIds :
            IsSome(calls[i].result) => calls'[i].result = calls[i].result]_vars
    /\ \A i \in CallIds :
          (calls[i].taskPc = "finished") ~> (calls[i].callerPc = "received")

\* the second call has its result while the first one's fetch is pending
C21_Witness ==
    /\ calls # <<>>
    /\ calls[1].callerPc = "awaiting" /\ calls[1].taskPc = "fetching"
    /\ calls[2].callerPc = "received"
    /\ Unwrap(calls[2].result).request = 2

----------------------------------------------------------------------------
(* The body stream of InnerClient::get_opts (http/mod.rs): a task forwards  *)
(* the items of response.bytes_stream() into an mpsc channel whose          *)
(* receiving end is the payload of the GetResult.                           *)

MaxChunks == 3   \* chunks of a response body

\* futures::channel::mpsc::channel(1)
ChannelBuffer == 1

\* a bounded mpsc channel takes its buffer and one message for each sender
ChannelCapacity == ChannelBuffer + 1

Chunk(i) == [ok |-> TRUE, bytes |-> i]
ChunkError == [ok |-> FALSE, err |-> "reqwest"]

\* the items bytes_stream() yields: the chunks of the body, or some of them
\* and then the error that breaks the transfer off
Bodies ==
    UNION {{[i \in 1..n |-> Chunk(i)], [i \in 1..n |-> Chunk(i)] \o <<ChunkError>>} :
              n \in 0..MaxChunks}

\* .map(|chunk| Ok(chunk.map_err(|source| Error::Generic {..})))
MapChunk(item) ==
    IF item.ok THEN item
    ELSE [ok |-> FALSE,
          err |-> [kind |-> "Generic", store |-> "HTTP", source |-> item.err]]

\* Enqueue that puts a message in front of the waiting ones
Enqueue_Front(q, item) == <<item>> \o q

\* start_send appends to the queue of the channel
Enqueue(q, item) == Append(q, item)

InitStream ==
    /\ OpenIdle /\ GetIdle /\ MetaIdle /\ StoreIdle /\ UploadIdle /\ BridgeIdle
    /\ CallsIdle /\ BuildIdle
    /\ streamPc = "call"
    /\ bodyItems \in Bodies
    /\ nextChunk = 1
    /\ buffered = None
    /\ queue = <<>>
    /\ producerPc = "idle"
    /\ consumerPc = "idle"
    /\ received = <<>>

\* get_opts, from the channel on: the task is spawned and the GetResult with
\* metadata, range and the receiving end is returned
StreamGetOpts ==
    /\ streamPc = "call"
    /\ streamPc' = "returned"
    /\ producerPc' = "forwarding"
    /\ consumerPc' = "reading"
    /\ UNCHANGED <<bodyItems, nextChunk, buffered, queue, received, outsideStream>>

\* forward polls the mapped stream and holds the item it yields
ProducerPull ==
    /\ producerPc = "forwarding"
    /\ buffered = None
    /\ nextChunk <= Len(bodyItems)
    /\ buffered' = Some(MapChunk(bodyItems[nextChunk]))
    /\ nextChunk' = nextChunk + 1
    /\ UNCHANGED <<streamPc, bodyItems, queue, producerPc, consumerPc, received,
                   outsideStream>>

\* forward hands the item it holds to the sender, which is ready while the
\* channel is below its capacity
ProducerSend ==
    /\ producerPc = "forwarding"
    /\ IsSome(buffered)
    /\ consumerPc # "dropped"
    /\ Len(queue) < ChannelCapacity
    /\ queue' = Enqueue(queue, Unwrap(buffered))
    /\ buffered' = None
    /\ UNCHANGED <<streamPc, bodyItems, nextChunk, producerPc, consumerPc, received,
                   outsideStream>>

\* the receiver is gone: poll_ready returns the SendError, forward returns
\* it, and the task unwraps it
ProducerSendFails ==
    /\ producerPc = "forwarding"
    /\ IsSome(buffered)
    /\ consumerPc = "dropped"
    /\ producerPc' = "panicked"
    /\ UNCHANGED <<streamPc, bodyItems, nextChunk, buffered, queue, consumerPc,
                   received, outsideStream>>

\* the stream has ended: forward closes the sender, which succeeds whether
\* or not the receiver lives, and the task ends
ProducerClose ==
    /\ producerPc = "forwarding"
    /\ buffered = None
    /\ nextChunk > Len(bodyItems)
    /\ producerPc' = "finished"
    /\ UNCHANGED <<streamPc, bodyItems, nextChunk, buffered, queue, consumerPc,
                   received, outsideStream>>

\* the consumer takes the next message
ConsumerNext ==
    /\ consumerPc = "reading"
    /\ queue # <<>>
    /\ received' = Append(received, Head(queue))
    /\ queue' = Tail(queue)
    /\ UNCHANGED <<streamPc, bodyItems, nextChunk, buffered, producerPc, consumerPc,
                   outsideStream>>

\* the channel is empty and its sender is closed: the stream yields None
ConsumerEnd ==
    /\ consumerPc = "reading"
    /\ queue = <<>>
    /\ producerPc = "finished"
    /\ consumerPc' = "ended"
    /\ UNCHANGED <<streamPc, bodyItems, nextChunk, buffered, queue, producerPc,
                   received, outsideStream>>

\* the consumer drops the stream: the receiver closes the channel and
\* discards the messages in it
ConsumerDrop ==
    /\ consumerPc = "reading"
    /\ consumerPc' = "dropped"
    /\ queue' = <<>>
    /\ UNCHANGED <<streamPc, bodyItems, nextChunk, buffered, producerPc, received,
                   outsideStream>>

NextStream ==
    \/ StreamGetOpts
    \/ ProducerPull
    \/ ProducerSend
    \/ ProducerSendFails
    \/ ProducerClose
    \/ ConsumerNext
    \/ ConsumerEnd
    \/ ConsumerDrop

SpecStream == InitStream /\ [][NextStream]_vars

\* the items the consumer is to see: the chunks, and the error as an item
ExpectedItems ==
    [i \in 1..Len(bodyItems) |->
        IF bodyItems[i].ok THEN bodyItems[i]
        ELSE [ok |-> FALSE,
              err |-> [kind |-> "Generic", store |-> "HTTP", source |-> "reqwest"]]]

\* what the producer holds and has not delivered
Undelivered == queue \o (IF IsSome(buffered) THEN <<Unwrap(buffered)>> ELSE <<>>)

(* C25: under every interleaving of the task and the consumer, what the
   consumer has received is a prefix of the items of the body, each once and
   in the order of the response, an error of the transfer being an item like
   the chunks; nothing is lost on the way; the stream ends only when all
   items are received; and no item is received before get_opts has returned
   the metadata and the range. *)
C25_BodyStream ==
    /\ Len(received) <= Len(bodyItems)
    /\ received = SubSeq(ExpectedItems, 1, Len(received))
    /\ consumerPc # "dropped" =>
          received \o Undelivered = SubSeq(ExpectedItems, 1, nextChunk - 1)
    /\ consumerPc = "ended" => received = ExpectedItems
    /\ received # <<>> => streamPc = "returned"

\* a body of MaxChunks chunks and an error, read to its end
C25_Witness ==
    /\ consumerPc = "ended"
    /\ Len(bodyItems) = MaxChunks + 1
    /\ ~bodyItems[MaxChunks + 1].ok
    /\ received = ExpectedItems
    /\ ~received[Len(received)].ok

(* C30: when the consumer drops the stream before the body is delivered,
   the task stops forwarding and ends without a panic; under no interleaving
   does the task panic, and the channel never holds more than its capacity
   of messages. *)
C30_EarlyDrop ==
    /\ producerPc # "panicked"
    /\ Len(queue) <= ChannelCapacity
    /\ consumerPc = "dropped" => queue = <<>>

====
